---- MODULE Spec2Model ----
(***************************************************************************)
(* The voice-session audio pipeline of the Editor component                *)
(* (src/unnamed/part_002): startSession / stopSession / handleVoiceClick,  *)
(* the playback scheduler queueAudio / processAudioQueue, and the React    *)
(* machinery they depend on (state versus the last rendered closure, the   *)
(* memoised callbacks, the clean-up effect).                               *)
(*                                                                         *)
(* Time is counted in samples of the 16 kHz playback clock, so a buffer of *)
(* n samples lasts n units, 0.2 s is 3200 units.                           *)
(***************************************************************************)
EXTENDS Integers, Sequences, FiniteSets, TLC

(* ------------------------------ bounds -------------------------------- *)
\* start attempts (invocations of startSession) in one behaviour
MaxStarts == 2
\* stopSession invocations that are awaiting a close() at the same time
MaxStops == 2
\* playback AudioContexts created in one behaviour
MaxPlayback == 3
\* agentAudio frames accepted by queueAudio in one behaviour (controller runs)
CtlFrames == 1
\* agentAudio frames accepted by queueAudio in one behaviour (scheduler runs)
MaxFrames == 3
\* the playback clock is not advanced beyond this (samples)
MaxTime == 1728
\* modules the user selects one after the other (module ids 1..MaxModules)
MaxModules == 2
\* message events the transport delivers in one behaviour
MaxMessages == 2
\* requests App sends to the modules API in one behaviour
MaxRequests == 3
\* samples in one input frame of the capture worklet, and frames it processes
MaxSamples == 2
\* agentAudio frames accepted in one behaviour of the controller with time
PlayFrames == 2
MaxQuanta == 3

(* ------------------------- program constants -------------------------- *)
SAMPLE_RATE == 16000
\* 0.2 s of look-ahead, in samples: 0.2 * SAMPLE_RATE
LookAhead == 3200
\* lengths (samples) of the frames the agent sends
FrameLens == {128, 2048}
\* steps by which the playback clock advances between callbacks
TickSteps == {64, 1600}
\* the one step of the clock in the controller with time
PlayTick == 1600
\* the length of the frames in the controller with time
PlayFrameLen == 2048
\* the message events the transport delivers: transcripts and errors
MessageEvents ==
  { [type |-> "transcript", is_final |-> FALSE, text |-> "hel", message |-> ""],
    [type |-> "transcript", is_final |-> TRUE, text |-> "hello", message |-> ""],
    [type |-> "error", is_final |-> FALSE, text |-> "", message |-> "quota"],
    [type |-> "error", is_final |-> FALSE, text |-> "", message |-> ""] }
\* the stored plain_content of module m when the page loads
PlainContentOf(m) == IF m = 1 THEN "a" ELSE "b"
\* what the user can make of the context textarea
TextareaValues == {"a", "a!", ""}

\* audio-processor.js line 10: the scale of the encoder and the ends of the
\* signed 16-bit range
FullScale == 32768
Int16Min == -32768
Int16Max == 32767
\* a float sample s is held as the integer s * FullScale * SubSteps, so that
\* s * 32768 is known to a quarter
SubSteps == 4
\* the input samples: around 0, around +1.0 and -1.0, and +2.0 and -2.0
SampleValues ==
  (-6..6)
  \cup ((FullScale * SubSteps - 5)..(FullScale * SubSteps + 3))
  \cup ((-FullScale * SubSteps - 3)..(-FullScale * SubSteps + 5))
  \cup {2 * FullScale * SubSteps, -2 * FullScale * SubSteps}
\* the input frames (inputs[0][0]): undefined when no channel is connected
ChannelFrames ==
  {[defined |-> FALSE, samples |-> <<>>]}
  \cup {[defined |-> TRUE, samples |-> f] :
          f \in UNION {[1..n -> SampleValues] : n \in 0..MaxSamples}}

Attempts == 1..MaxStarts
StopSlots == 1..MaxStops

Max(a, b) == IF a >= b THEN a ELSE b

VARIABLES
  \* React state of Editor (the values the next render will see)
  isListening, isConnecting, error, audioContext, mediaStream,
  \* the state values of the last committed render: what handleVoiceClick,
  \* the current stopSession and the clean-up effect close over
  rendered,
  \* the stopSession closure captured by the memoised startSession
  startSessionStop,
  \* the hosting App: whether Editor is mounted, and the moduleId prop
  mounted, moduleId,
  \* the working context text; the number of message events delivered and
  \* the last of them (history)
  localPlainContent, messages, lastMessage,
  \* the capture worklet: one entry for each call of AudioProcessor.process,
  \* with the input frame and the frame posted on the port (history)
  portMessages,
  \* App's editMode (from the URL), the plainContent prop (the stored
  \* plain_content of the selected module) and the pending debounced save
  editMode, plainContent, saveTimeoutRef,
  \* the last credential response that was not ok (history)
  resp,
  \* the server's modules table, and App's state: the modules list, the
  \* selected module, whether App shows its error page; the persona text as
  \* edited in Editor; the requests of moduleService that are in flight, and
  \* how many were issued (history)
  db, modules, selectedModule, appError, localPersona, requests, issued,
  \* refs of Editor
  abortControllerRef, workletNodeRef, playbackContextRef, nextPlayTimeRef,
  audioQueueRef, isProcessingRef, messageHandlerRef, audioHandlerRef,
  \* the objects behind the handles, indexed by the attempt that created them
  controllers, captureContexts, streams, workletNodes,
  \* the playback AudioContexts, in creation order
  playbackContexts,
  \* the shared flowClient: registered listeners and the conversation
  messageListeners, agentAudioListeners, conversation,
  \* the asynchronous invocations of startSession and stopSession
  attempts, stops,
  \* wall clock, pending redrain timers (deadlines), the frames handed to
  \* source.start in order (dur: the samples the buffer holds; now, npt: the
  \* pass's currentTime and nextPlayTimeRef before the frame), and the number
  \* of frames queueAudio accepted
  now, redrainTimers, scheduled, accepted,
  \* history: whether the last step completed a stopSession, and if so the
  \* start attempts that were Active when it was invoked and whether every
  \* handle was already released then
  justStopped

reactState == <<isListening, isConnecting, error, audioContext, mediaStream>>
refs == <<abortControllerRef, workletNodeRef, playbackContextRef, nextPlayTimeRef,
          audioQueueRef, isProcessingRef, messageHandlerRef, audioHandlerRef>>
objects == <<controllers, captureContexts, streams, workletNodes, playbackContexts>>
flowClient == <<messageListeners, agentAudioListeners, conversation>>
playback == <<playbackContexts, playbackContextRef, nextPlayTimeRef, audioQueueRef,
              isProcessingRef, redrainTimers, scheduled, accepted>>
\* what only the hosting App and a change of props change
hosting == <<startSessionStop, mounted, moduleId>>
\* what only the message handler and a change of props change
transcripts == <<localPlainContent, messages, lastMessage>>
\* what no action of the session controller changes
\* the hosting App and its server
app == <<db, modules, selectedModule, appError, localPersona, requests, issued>>
offSession == <<portMessages, editMode, plainContent, saveTimeoutRef, resp, app>>
\* what the user can make of the persona textarea
PersonaValues == {"", "p"}
\* no credential request has been answered with a failure
NoResponse == [ok |-> TRUE, details |-> "", statusText |-> ""]
\* answers of /speechmatics-credentials that are not ok: a JSON body with or
\* without details, and the status text of the response
FailedResponses ==
  { [ok |-> FALSE, details |-> "Unknown error", statusText |-> "Internal Server Error"],
    [ok |-> FALSE, details |-> "", statusText |-> "Bad Gateway"] }
vars == <<isListening, isConnecting, error, audioContext, mediaStream, rendered,
          startSessionStop, mounted, moduleId, localPlainContent, messages,
          lastMessage, portMessages, editMode, plainContent, saveTimeoutRef, resp,
          db, modules, selectedModule, appError, localPersona, requests, issued,
          abortControllerRef, workletNodeRef,
          playbackContextRef,
          nextPlayTimeRef, audioQueueRef, isProcessingRef, messageHandlerRef,
          audioHandlerRef, controllers, captureContexts, streams, workletNodes,
          playbackContexts, messageListeners, agentAudioListeners, conversation,
          attempts, stops, now, redrainTimers, scheduled, accepted, justStopped>>

(* ======================= Playback scheduler =========================== *)

\* AudioContext.currentTime of playback context c: it starts at 0 when the
\* context is created (at wall time t0)
currentTimeOf(pbs, c, t) == t - pbs[c].t0

\* a fresh playback context: new AudioContext({ sampleRate: SAMPLE_RATE }),
\* made at wall time t by start attempt by (0: by queueAudio)
NewPlaybackContext(t, by) == [state |-> "running", t0 |-> t, by |-> by]

\* mutant of BufferDuration: the duration taken at half the sample rate
BufferDurationHalfRate(n) == (n * SAMPLE_RATE) \div (SAMPLE_RATE \div 2)

\* buffer.duration of a buffer of n samples made at SAMPLE_RATE (line 188),
\* in samples of the context's clock, which runs at SAMPLE_RATE too
BufferDuration(n) == (n * SAMPLE_RATE) \div SAMPLE_RATE

\* mutant of StartTime: the frame starts at the pass's currentTime, whatever
\* the cursor says
StartTimeIgnoresCursor(currentTime, nextPlayTime) == currentTime

\* line 200: Math.max(currentTime, nextPlayTimeRef.current)
StartTime(currentTime, nextPlayTime) == Max(currentTime, nextPlayTime)

\* line 207: nextPlayTimeRef.current > currentTime + 0.2
TooFarAhead(nextPlayTime, currentTime) == nextPlayTime > currentTime + LookAhead

\* The scheduler's part of the state as one record, so that the synchronous
\* body of queueAudio -> processAudioQueue can be applied several times in
\* one callback (one agentAudio event reaches every registered listener).
PlaybackState ==
  [pbs |-> playbackContexts, ref |-> playbackContextRef, npt |-> nextPlayTimeRef,
   queue |-> audioQueueRef, proc |-> isProcessingRef, timers |-> redrainTimers,
   log |-> scheduled, acc |-> accepted, threw |-> FALSE]

\* lines 186-210: the while loop of processAudioQueue; currentTime was read
\* once, before the loop. createBuffer (line 188) throws NotSupportedError for
\* a frame of no sample: the loop is left with the frame still queued (threw).
RECURSIVE DrainLoop(_, _)
DrainLoop(k, currentTime) ==
  IF k.queue = <<>> THEN k
  ELSE IF Head(k.queue).len = 0 THEN [k EXCEPT !.threw = TRUE]
  ELSE
    LET audioData == Head(k.queue)
        startTime == StartTime(currentTime, k.npt)
        k1 == [k EXCEPT
                 !.log = Append(@, [id |-> audioData.id, ctx |-> k.ref,
                                    start |-> startTime,
                                    dur |-> audioData.len,
                                    now |-> currentTime, npt |-> k.npt]),
                 !.npt = startTime + BufferDuration(audioData.len),
                 !.queue = Tail(@)]
    IN IF TooFarAhead(k1.npt, currentTime) THEN k1 ELSE DrainLoop(k1, currentTime)

\* mutant of processAudioQueue: the timer is armed whenever the pass ends
\* with the cursor beyond the look-ahead, whether or not frames are left
processAudioQueueArmsAhead(k, t) ==
  IF k.proc \/ k.ref = 0 \/ k.queue = <<>> THEN k
  ELSE
    LET k1 == DrainLoop([k EXCEPT !.proc = TRUE], currentTimeOf(k.pbs, k.ref, t))
        k2 == [k1 EXCEPT !.proc = FALSE]
    IN IF TooFarAhead(k2.npt, currentTimeOf(k.pbs, k.ref, t))
         THEN [k2 EXCEPT !.timers = Append(@, t + (SAMPLE_RATE \div 10))]
         ELSE k2

\* lines 178-218: processAudioQueue. It is declared async but awaits nothing,
\* so its body runs to the end inside the callback that calls it; an
\* exception thrown in the loop rejects the promise it returns, which nobody
\* awaits, and the lines after the loop (212-217) are not run.
processAudioQueue(k, t) ==
  IF k.proc \/ k.ref = 0 \/ k.queue = <<>> THEN k
  ELSE
    LET k1 == DrainLoop([k EXCEPT !.proc = TRUE], currentTimeOf(k.pbs, k.ref, t))
        k2 == [k1 EXCEPT !.proc = FALSE]
    IN IF k1.threw THEN [k1 EXCEPT !.threw = FALSE]
       ELSE IF k2.queue # <<>>
         THEN [k2 EXCEPT !.timers = Append(@, t + (SAMPLE_RATE \div 10))]
         ELSE k2

\* mutant of queueAudio: a frame that arrives while the cursor is beyond the
\* look-ahead is dropped instead of queued
queueAudioDropsLate(k, len, t) ==
  IF k.ref # 0 /\ TooFarAhead(k.npt, currentTimeOf(k.pbs, k.ref, t))
    THEN [k EXCEPT !.acc = @ + 1]
    ELSE processAudioQueue([k EXCEPT !.acc = @ + 1,
                              !.queue = Append(@, [id |-> k.acc + 1, len |-> len])], t)

\* lines 220-228: queueAudio
queueAudio(k, len, t) ==
  LET fresh == k.ref = 0 \/ k.pbs[k.ref].state = "closed"
      k1 == IF fresh
              THEN [k EXCEPT !.pbs = Append(@, NewPlaybackContext(t, 0)),
                             !.ref = Len(k.pbs) + 1,
                             !.npt = 0]
              ELSE k
      k2 == [k1 EXCEPT !.acc = @ + 1,
                       !.queue = Append(@, [id |-> k1.acc + 1, len |-> len])]
  IN processAudioQueue(k2, t)

\* audioHandler (lines 327-329) run by every registered agentAudio listener
RECURSIVE Deliver(_, _, _, _)
Deliver(k, n, len, t) ==
  IF n = 0 THEN k ELSE Deliver(queueAudio(k, len, t), n - 1, len, t)

SetPlayback(k) ==
  /\ playbackContexts' = k.pbs
  /\ playbackContextRef' = k.ref
  /\ nextPlayTimeRef' = k.npt
  /\ audioQueueRef' = k.queue
  /\ isProcessingRef' = k.proc
  /\ redrainTimers' = k.timers
  /\ scheduled' = k.log
  /\ accepted' = k.acc


(* ======================== Session controller ========================== *)

IdleStop ==
  [pc |-> "idle", ac |-> 0, ms |-> 0, pbc |-> 0, caller |-> 0,
   session |-> {}, released |-> FALSE]

NoStop == [kind |-> "none", session |-> {}, released |-> FALSE]

\* every resource handle of the component is null or refers to a closed
\* (stopped) object, the queue is empty and the cursor reset
Released ==
  /\ abortControllerRef = 0 /\ workletNodeRef = 0
  /\ messageHandlerRef = 0 /\ audioHandlerRef = 0
  /\ playbackContextRef = 0 \/ playbackContexts[playbackContextRef].state = "closed"
  /\ audioContext = 0 \/ captureContexts[audioContext] = "closed"
  /\ mediaStream = 0 \/ streams[mediaStream] = "stopped"
  /\ audioQueueRef = <<>> /\ nextPlayTimeRef = 0 /\ isProcessingRef = FALSE
  /\ isListening = FALSE
IdleAttempt ==
  [pc |-> "idle", pbc |-> 0, stopped |-> FALSE,
   stoppedCred |-> FALSE, result |-> "none", failedAt |-> "none", module |-> 0,
   listenersStopped |-> FALSE,
   credentials |-> FALSE, handshake |-> FALSE, sent |-> FALSE]

\* the awaited steps of startSession after its initial stopSession
Connecting == {"cred", "pbClose", "conv", "gum", "addModule"}
InFlight == Connecting \cup {"stop"}

\* no start attempt is in its stop phase or a later awaited step
StartsInProgressNone == \A a \in Attempts : attempts[a].pc \notin InFlight

HasFreeStop == \E s \in StopSlots : stops[s].pc = "idle"
FreeStop == CHOOSE s \in StopSlots :
              stops[s].pc = "idle" /\ \A u \in StopSlots : stops[u].pc = "idle" => s <= u
HasFreeAttempt == \E a \in Attempts : attempts[a].pc = "idle"
FreeAttempt == CHOOSE a \in Attempts :
                 attempts[a].pc = "idle" /\ \A b \in Attempts : attempts[b].pc = "idle" => a <= b

\* the values the component function reads when it renders now
CurrentRender ==
  [isListening |-> isListening, isConnecting |-> isConnecting,
   audioContext |-> audioContext, mediaStream |-> mediaStream]

\* history only: a stopSession is being invoked; remember which start attempts
\* were Connecting, which were awaiting the credential request, which Active
\* ones the stop is for, and which had their listeners registered
MarkStopped(atts) ==
  [a \in Attempts |->
     [atts[a] EXCEPT !.stopped = @ \/ atts[a].pc \in Connecting,
                     !.stoppedCred = @ \/ atts[a].pc = "cred",
                     !.result = IF isListening /\ @ = "active" THEN "stopped" ELSE @,
                     !.listenersStopped =
                        @ \/ a \in messageListeners \/ a \in agentAudioListeners]]

\* AudioContext.close() (Web Audio API): the state attribute stays "running"
\* until the returned promise resolves, and is "closed" from then on. The
\* actions that model the resolution set the state; the call itself changes
\* nothing the program can read.

\* controller.abort() on the controller the ref holds
Abort(ctrls, ref) == IF ref = 0 THEN ctrls ELSE [ctrls EXCEPT ![ref] = "aborted"]

\* lines 263-272: stopRecording, closing over mediaStream = ms
stopRecording(ms) ==
  /\ workletNodes' = IF workletNodeRef = 0 THEN workletNodes
                     ELSE [workletNodes EXCEPT ![workletNodeRef] = "disconnected"]
  /\ workletNodeRef' = 0
  /\ streams' = IF ms = 0 THEN streams ELSE [streams EXCEPT ![ms] = "stopped"]
  /\ mediaStream' = IF ms = 0 THEN mediaStream ELSE 0

\* lines 373-388: the synchronous head of stopSession
StopHead(ms) ==
  /\ controllers' = Abort(controllers, abortControllerRef)
  /\ abortControllerRef' = 0
  /\ messageListeners' = messageListeners \ {messageHandlerRef}
  /\ messageHandlerRef' = 0
  /\ agentAudioListeners' = agentAudioListeners \ {audioHandlerRef}
  /\ audioHandlerRef' = 0
  /\ conversation' = "none"
  /\ stopRecording(ms)

stopHeadVars == <<controllers, abortControllerRef, messageListeners, messageHandlerRef,
                  agentAudioListeners, audioHandlerRef, conversation, workletNodes,
                  workletNodeRef, streams, mediaStream>>

\* mutant of StopTail: a stop that finds no Active session reports it in the
\* error slot
StopTailReportsIdle(s, rec) ==
  /\ audioQueueRef' = <<>>
  /\ nextPlayTimeRef' = 0
  /\ isProcessingRef' = FALSE
  /\ isListening' = FALSE
  /\ error' = IF rec.session = {} THEN "No active session" ELSE "none"
  /\ stops' = [stops EXCEPT ![s] = IF rec.caller = 0 THEN IdleStop
                                   ELSE [rec EXCEPT !.pc = "wait"]]
  /\ justStopped' = [kind |-> "stop", session |-> rec.session,
                      released |-> rec.released]

\* lines 400-406: the tail of stopSession, up to its 100 ms sleep. Nobody
\* awaits a stopSession called by handleVoiceClick or by the clean-up effect,
\* so such an invocation is over here; startSession awaits the sleep.
StopTail(s, rec) ==
  /\ audioQueueRef' = <<>>
  /\ nextPlayTimeRef' = 0
  /\ isProcessingRef' = FALSE
  /\ isListening' = FALSE
  /\ error' = "none"
  /\ stops' = [stops EXCEPT ![s] = IF rec.caller = 0 THEN IdleStop
                                   ELSE [rec EXCEPT !.pc = "wait"]]
  /\ justStopped' = [kind |-> "stop", session |-> rec.session,
                      released |-> rec.released]

stopTailVars == <<audioQueueRef, nextPlayTimeRef, isProcessingRef, isListening, error>>

\* lines 395-398, then the tail. When the ref is null the await is of
\* undefined and the function goes on in the same turn.
StopPlayback(s, rec) ==
  LET ref == playbackContextRef IN
  IF ref # 0 /\ playbackContexts[ref].state # "closed"
    THEN /\ stops' = [stops EXCEPT ![s] = [rec EXCEPT !.pc = "pb", !.pbc = ref]]
         /\ justStopped' = NoStop
         /\ UNCHANGED <<playbackContexts, playbackContextRef, stopTailVars>>
    ELSE /\ UNCHANGED <<playbackContexts, playbackContextRef>>
         /\ StopTail(s, rec)

\* lines 372-393: stopSession invoked with the closure values ac (audioContext)
\* and ms (mediaStream), on behalf of start attempt caller (0: nobody awaits)
stopSession(s, ac, ms, caller) ==
  LET rec == [pc |-> "idle", ac |-> ac, ms |-> ms, pbc |-> 0, caller |-> caller,
              session |-> IF isListening
                            THEN {a \in Attempts : attempts[a].result = "active"}
                            ELSE {},
              released |-> Released] IN
  /\ StopHead(ms)
  /\ IF ac # 0 /\ captureContexts[ac] # "closed"
       THEN /\ stops' = [stops EXCEPT ![s] = [rec EXCEPT !.pc = "capture"]]
            /\ justStopped' = NoStop
            /\ UNCHANGED <<audioContext, captureContexts, playbackContexts,
                           playbackContextRef, stopTailVars>>
       ELSE /\ audioContext' = IF ac = 0 THEN 0 ELSE audioContext
            /\ UNCHANGED captureContexts
            /\ StopPlayback(s, rec)

\* line 391 resolves: the capture context is closed; line 392, then on
StopCaptureClosed(s) ==
  /\ stops[s].pc = "capture"
  /\ captureContexts' = [captureContexts EXCEPT ![stops[s].ac] = "closed"]
  /\ audioContext' = 0
  /\ StopPlayback(s, stops[s])
  /\ UNCHANGED <<stopHeadVars, isConnecting, rendered, hosting, transcripts, offSession,
                 attempts,
                 now, redrainTimers, scheduled, accepted>>

\* line 396 resolves: the playback context is closed; line 397, then the tail
StopPlaybackClosed(s) ==
  /\ stops[s].pc = "pb"
  /\ playbackContexts' = [playbackContexts EXCEPT ![stops[s].pbc].state = "closed"]
  /\ playbackContextRef' = 0
  /\ StopTail(s, stops[s])
  /\ UNCHANGED <<stopHeadVars, audioContext, captureContexts, isConnecting, rendered,
                 hosting, transcripts, offSession,
                 attempts, now, redrainTimers, scheduled,
                 accepted>>


(* ----------------------------- startSession --------------------------- *)

ctlRest == <<now, redrainTimers, scheduled, accepted, hosting, transcripts, offSession>>

\* mutant of Catch: the AbortError of a cancelled request is surfaced like
\* any other failure
CatchSurfacesAbort(a, kind) ==
  /\ error' = kind
  /\ isListening' = FALSE
  /\ isConnecting' = FALSE
  /\ abortControllerRef' = 0
  /\ attempts' = [attempts EXCEPT ![a].pc = "done",
                    ![a].result = IF kind = "AbortError" THEN "aborted" ELSE "failed",
                    ![a].failedAt = attempts[a].pc]
  /\ justStopped' = NoStop

\* lines 358-369: catch and finally of startSession. An AbortError is not
\* written to the error slot; nothing the attempt acquired is released.
\* (failedAt is history: the awaited step that threw.)
Catch(a, kind) ==
  /\ error' = IF kind = "AbortError" THEN error ELSE kind
  /\ isListening' = FALSE
  /\ isConnecting' = FALSE
  /\ abortControllerRef' = 0
  /\ attempts' = [attempts EXCEPT ![a].pc = "done",
                    ![a].result = IF kind = "AbortError" THEN "aborted" ELSE "failed",
                    ![a].failedAt = attempts[a].pc]
  /\ justStopped' = NoStop

catchVars == <<error, isListening, isConnecting, abortControllerRef>>

\* line 391 rejects (close() of the capture context fails): nothing catches
\* inside stopSession, so lines 392-406 do not run. A stopSession called by
\* handleVoiceClick or the clean-up effect ends as an unhandled rejection; one
\* awaited by startSession (line 276) throws into its catch (lines 358-369).
StopCaptureCloseFails(s) ==
  LET a == stops[s].caller IN
  /\ stops[s].pc = "capture"
  /\ stops' = [stops EXCEPT ![s] = IdleStop]
  /\ justStopped' = [kind |-> "threw", session |-> stops[s].session,
                      released |-> FALSE]
  /\ IF a = 0
       THEN UNCHANGED <<catchVars, attempts>>
       ELSE /\ error' = "InvalidStateError"
            /\ isListening' = FALSE
            /\ isConnecting' = FALSE
            /\ abortControllerRef' = 0
            /\ attempts' = [attempts EXCEPT ![a].pc = "done", ![a].result = "failed",
                                            ![a].failedAt = "stop"]
  /\ UNCHANGED <<audioContext, mediaStream, rendered, workletNodeRef, playbackContextRef,
                 nextPlayTimeRef, audioQueueRef, isProcessingRef, messageHandlerRef,
                 audioHandlerRef, objects, flowClient, ctlRest>>

\* lines 276-291: the awaited stopSession returns (its 100 ms sleep is over);
\* startSession sets isConnecting, makes its AbortController and issues the
\* credential request
StopSleepDone(s) ==
  LET a == stops[s].caller IN
  /\ stops[s].pc = "wait"
  /\ stops' = [stops EXCEPT ![s] = IdleStop]
  /\ isConnecting' = TRUE
  /\ error' = "none"
  /\ controllers' = [Abort(controllers, abortControllerRef) EXCEPT ![a] = "live"]
  /\ abortControllerRef' = a
  /\ attempts' = [attempts EXCEPT ![a].pc = "cred"]
  /\ justStopped' = NoStop
  /\ UNCHANGED <<isListening, audioContext, mediaStream, rendered, workletNodeRef,
                 playbackContextRef, nextPlayTimeRef, audioQueueRef, isProcessingRef,
                 messageHandlerRef, audioHandlerRef, captureContexts, streams,
                 workletNodes, playbackContexts, flowClient, ctlRest>>

\* mutant of SetupSession: the cursor of the previous playback context is
\* kept for the new one
SetupSessionKeepsCursor(a, pbs) ==
  /\ Len(pbs) < MaxPlayback
  /\ playbackContexts' = Append(pbs, NewPlaybackContext(now, a))
  /\ playbackContextRef' = Len(pbs) + 1
  /\ UNCHANGED nextPlayTimeRef
  /\ audioQueueRef' = <<>>
  /\ messageHandlerRef' = a
  /\ audioHandlerRef' = a
  /\ messageListeners' = messageListeners \cup {a}
  /\ agentAudioListeners' = agentAudioListeners \cup {a}
  /\ attempts' = [attempts EXCEPT ![a].pc = "conv", ![a].credentials = TRUE]

\* lines 307-337: the new playback context, the two handlers and their
\* registration, and the call of flowClient.startConversation
SetupSession(a, pbs) ==
  /\ Len(pbs) < MaxPlayback
  /\ playbackContexts' = Append(pbs, NewPlaybackContext(now, a))
  /\ playbackContextRef' = Len(pbs) + 1
  /\ nextPlayTimeRef' = 0
  /\ audioQueueRef' = <<>>
  /\ messageHandlerRef' = a
  /\ audioHandlerRef' = a
  /\ messageListeners' = messageListeners \cup {a}
  /\ agentAudioListeners' = agentAudioListeners \cup {a}
  /\ attempts' = [attempts EXCEPT ![a].pc = "conv", ![a].credentials = TRUE]

\* line 288 rejects because the attempt's controller was aborted
CredentialAborted(a) ==
  /\ attempts[a].pc = "cred"
  /\ controllers[a] = "aborted"
  /\ Catch(a, "AbortError")
  /\ UNCHANGED <<audioContext, mediaStream, rendered, workletNodeRef, playbackContextRef,
                 nextPlayTimeRef, audioQueueRef, isProcessingRef, messageHandlerRef,
                 audioHandlerRef, objects, flowClient, stops, ctlRest>>

\* mutant of CredentialError: the details of the body are ignored
CredentialErrorStatusOnly(response) ==
  "Failed to fetch credentials: " \o response.statusText

\* line 295: the message thrown for a response that is not ok
\* (errorData.details || resp.statusText: an empty details string is falsy)
CredentialError(response) ==
  "Failed to fetch credentials: " \o
    (IF response.details # "" THEN response.details ELSE response.statusText)

\* lines 293-296: the credential request is answered with a response that is
\* not ok; its JSON body is read and the error is thrown to line 358
CredentialFails(a, response) ==
  /\ attempts[a].pc = "cred"
  /\ controllers[a] # "aborted"
  /\ ~response.ok
  /\ resp' = response
  /\ Catch(a, CredentialError(response))
  /\ UNCHANGED <<audioContext, mediaStream, rendered, workletNodeRef, playbackContextRef,
                 nextPlayTimeRef, audioQueueRef, isProcessingRef, messageHandlerRef,
                 audioHandlerRef, objects, flowClient, stops, now, redrainTimers,
                 scheduled, accepted, hosting, transcripts, portMessages, editMode,
                 plainContent, saveTimeoutRef, app>>

\* lines 298-305: the token arrives; the capture context is made; an existing
\* playback context is closed and awaited. (close() of a closed context would
\* reject, but the ref never holds a closed context: RefNeverClosed below.)
CredentialOk(a) ==
  /\ attempts[a].pc = "cred"
  /\ controllers[a] # "aborted"
  /\ captureContexts' = [captureContexts EXCEPT ![a] = "running"]
  /\ audioContext' = a
  /\ justStopped' = NoStop
  /\ IF playbackContextRef # 0
       THEN /\ attempts' = [attempts EXCEPT ![a].pc = "pbClose",
                                              ![a].pbc = playbackContextRef,
                                              ![a].credentials = TRUE]
            /\ UNCHANGED <<playbackContexts, playbackContextRef, nextPlayTimeRef,
                           audioQueueRef,
                           messageHandlerRef, audioHandlerRef, messageListeners,
                           agentAudioListeners>>
       ELSE SetupSession(a, playbackContexts)
  /\ UNCHANGED <<isListening, isConnecting, error, mediaStream, rendered,
                 abortControllerRef, workletNodeRef, isProcessingRef, controllers,
                 streams, workletNodes, conversation, stops, ctlRest>>

\* line 305 resolves
PlaybackCloseOk(a) ==
  /\ attempts[a].pc = "pbClose"
  /\ SetupSession(a, [playbackContexts EXCEPT ![attempts[a].pbc].state = "closed"])
  /\ justStopped' = NoStop
  /\ UNCHANGED <<reactState, rendered, abortControllerRef, workletNodeRef,
                 isProcessingRef, controllers, captureContexts, streams, workletNodes,
                 conversation, stops, ctlRest>>

\* line 337 resolves; line 353 -> line 233: getUserMedia is called
ConversationOk(a) ==
  /\ attempts[a].pc = "conv"
  /\ conversation' = "open"
  /\ attempts' = [attempts EXCEPT ![a].pc = "gum", ![a].handshake = TRUE]
  /\ justStopped' = NoStop
  /\ UNCHANGED <<reactState, rendered, refs, objects, messageListeners,
                 agentAudioListeners, stops, ctlRest>>

\* mutant of ConversationFails: the rejection is swallowed and the attempt
\* goes on to the microphone
ConversationFailsIgnored(a) ==
  /\ attempts[a].pc = "conv"
  /\ attempts' = [attempts EXCEPT ![a].pc = "gum"]
  /\ justStopped' = NoStop
  /\ UNCHANGED <<reactState, rendered, refs, objects, flowClient, stops, ctlRest>>

\* line 337 rejects
ConversationFails(a) ==
  /\ attempts[a].pc = "conv"
  /\ Catch(a, "Failed to start conversation")
  /\ UNCHANGED <<audioContext, mediaStream, rendered, workletNodeRef, playbackContextRef,
                 nextPlayTimeRef, audioQueueRef, isProcessingRef, messageHandlerRef,
                 audioHandlerRef, objects, flowClient, stops, ctlRest>>

\* line 233 resolves with a stream; line 240: addModule is called
GetUserMediaOk(a) ==
  /\ attempts[a].pc = "gum"
  /\ streams' = [streams EXCEPT ![a] = "live"]
  /\ attempts' = [attempts EXCEPT ![a].pc = "addModule"]
  /\ justStopped' = NoStop
  /\ UNCHANGED <<reactState, rendered, refs, controllers, captureContexts, workletNodes,
                 playbackContexts, flowClient, stops, ctlRest>>

\* line 233 rejects: lines 255-260, then lines 358-369
GetUserMediaFails(a) ==
  /\ attempts[a].pc = "gum"
  /\ Catch(a, "Failed to start recording")
  /\ UNCHANGED <<audioContext, mediaStream, rendered, workletNodeRef, playbackContextRef,
                 nextPlayTimeRef, audioQueueRef, isProcessingRef, messageHandlerRef,
                 audioHandlerRef, objects, flowClient, stops, ctlRest>>

\* line 240 resolves: lines 243-254 and 354-357, then finally
AddModuleOk(a) ==
  /\ attempts[a].pc = "addModule"
  /\ workletNodes' = [workletNodes EXCEPT ![a] = "connected"]
  /\ workletNodeRef' = a
  /\ mediaStream' = a
  /\ isListening' = TRUE
  /\ error' = "none"
  /\ isConnecting' = FALSE
  /\ abortControllerRef' = 0
  /\ attempts' = [attempts EXCEPT ![a].pc = "done", ![a].result = "active"]
  /\ justStopped' = NoStop
  /\ UNCHANGED <<audioContext, rendered, playbackContextRef, nextPlayTimeRef,
                 audioQueueRef, isProcessingRef, messageHandlerRef, audioHandlerRef,
                 controllers, captureContexts, streams, playbackContexts, flowClient,
                 stops, ctlRest>>

\* line 240 rejects: lines 255-260, then lines 358-369
AddModuleFails(a) ==
  /\ attempts[a].pc = "addModule"
  /\ Catch(a, "Failed to start recording")
  /\ UNCHANGED <<audioContext, mediaStream, rendered, workletNodeRef, playbackContextRef,
                 nextPlayTimeRef, audioQueueRef, isProcessingRef, messageHandlerRef,
                 audioHandlerRef, objects, flowClient, stops, ctlRest>>

\* lines 246-248: the worklet of attempt a posts a captured frame and the
\* port's onmessage hands it to flowClient.sendAudio (sent is history: whether
\* that has happened)
WorkletMessage(a) ==
  /\ workletNodes[a] = "connected"
  /\ streams[a] = "live"
  /\ captureContexts[a] = "running"
  /\ ~attempts[a].sent
  /\ attempts' = [attempts EXCEPT ![a].sent = TRUE]
  /\ justStopped' = NoStop
  /\ UNCHANGED <<reactState, rendered, refs, objects, flowClient, stops, ctlRest>>

(* -------------------- user, React and environment --------------------- *)

\* lines 409-415 with lines 708 and 712: a click on the voice button, which is
\* rendered outside edit mode for a module with context text and enabled while
\* not connecting, while the rendered isListening is false
ClickStart ==
  /\ mounted
  /\ ~editMode /\ plainContent # ""
  /\ ~rendered.isConnecting
  /\ ~rendered.isListening
  /\ HasFreeStop /\ HasFreeAttempt
  /\ stopSession(FreeStop, startSessionStop.audioContext, startSessionStop.mediaStream,
                 FreeAttempt)
  /\ attempts' = MarkStopped([attempts EXCEPT ![FreeAttempt].pc = "stop",
                                               ![FreeAttempt].module = moduleId])
  /\ UNCHANGED <<isConnecting, rendered, ctlRest>>

\* lines 409-415 with line 712: a click while the rendered isListening is true
ClickStop ==
  /\ mounted
  /\ ~editMode /\ plainContent # ""
  /\ ~rendered.isConnecting
  /\ rendered.isListening
  /\ HasFreeStop
  /\ stopSession(FreeStop, rendered.audioContext, rendered.mediaStream, 0)
  /\ attempts' = MarkStopped(attempts)
  /\ UNCHANGED <<isConnecting, rendered, ctlRest>>

\* the dependencies of the clean-up effect (line 569): isListening and
\* stopSession, whose identity follows audioContext and mediaStream
EffectDepsChanged ==
  \/ rendered.isListening # isListening
  \/ rendered.audioContext # audioContext
  \/ rendered.mediaStream # mediaStream

\* React commits a render; when the effect's dependencies changed, the
\* clean-up of the previous render runs (lines 560-568) with isListening false
Render ==
  /\ mounted
  /\ rendered # CurrentRender
  /\ ~(EffectDepsChanged /\ rendered.isListening)
  /\ rendered' = CurrentRender
  /\ controllers' = IF EffectDepsChanged THEN Abort(controllers, abortControllerRef)
                    ELSE controllers
  /\ abortControllerRef' = IF EffectDepsChanged THEN 0 ELSE abortControllerRef
  /\ justStopped' = NoStop
  /\ UNCHANGED <<reactState, workletNodeRef, playbackContextRef, nextPlayTimeRef,
                 audioQueueRef, isProcessingRef, messageHandlerRef, audioHandlerRef,
                 captureContexts, streams, workletNodes, playbackContexts, flowClient,
                 attempts, stops, ctlRest>>

\* the same, the previous render having isListening true: the clean-up calls
\* that render's stopSession
RenderStopsSession ==
  /\ mounted
  /\ rendered # CurrentRender
  /\ EffectDepsChanged /\ rendered.isListening
  /\ HasFreeStop
  /\ rendered' = CurrentRender
  /\ stopSession(FreeStop, rendered.audioContext, rendered.mediaStream, 0)
  /\ attempts' = MarkStopped(attempts)
  /\ UNCHANGED <<isConnecting, ctlRest>>

\* App stops rendering Editor (selectedModule becomes null, or App shows its
\* error page): the clean-up of the last committed effect runs (lines 560-568)
Unmount ==
  /\ mounted
  /\ mounted' = FALSE
  /\ IF rendered.isListening
       THEN /\ HasFreeStop
            /\ stopSession(FreeStop, rendered.audioContext, rendered.mediaStream, 0)
            /\ attempts' = MarkStopped(attempts)
            /\ UNCHANGED isConnecting
       ELSE /\ controllers' = Abort(controllers, abortControllerRef)
            /\ abortControllerRef' = 0
            /\ justStopped' = NoStop
            /\ UNCHANGED <<reactState, workletNodeRef, playbackContextRef,
                           nextPlayTimeRef, audioQueueRef, isProcessingRef,
                           messageHandlerRef, audioHandlerRef, captureContexts, streams,
                           workletNodes, playbackContexts, flowClient, attempts, stops>>
  /\ UNCHANGED <<rendered, startSessionStop, moduleId, transcripts, offSession, now,
                 redrainTimers, scheduled, accepted>>

(* ------------------------- modules: the server ------------------------ *)

\* the columns of the modules table that PUT /:id can set (modules.ts 78-97)
FieldNames == {"title", "content", "plain_content", "style", "persona"}

\* the row of module m when the page loads
InitialRow(m) ==
  [id |-> m, title |-> "t", content |-> "c", plain_content |-> PlainContentOf(m),
   style |-> "", persona |-> "", display_order |-> m, updated_at |-> 0]

\* selectedModule = null
NoModule ==
  [id |-> 0, title |-> "", content |-> "", plain_content |-> "", style |-> "",
   persona |-> "", display_order |-> 0, updated_at |-> 0]

\* no save is pending. (cleared is history: clearTimeout has cancelled a
\* pending save since the last one was armed or fired.)
NoTimeout ==
  [pending |-> FALSE, cleared |-> FALSE, selectedModule |-> NoModule,
   plain_content |-> "", persona |-> ""]

\* clearTimeout(saveTimeoutRef.current)
clearTimeout(timeout) == [NoTimeout EXCEPT !.cleared = timeout.pending \/ timeout.cleared]

\* no transaction is open on the connection
NoTransaction == [rows |-> {}, lastID |-> 0]

\* the database behind the one connection all handlers share (part_004 lines
\* 9-19, 45-50): the table when the page loads with the last id it gave out,
\* whether a transaction is open on the connection and, while one is, what
\* ROLLBACK goes back to
InitialDb ==
  [rows |-> {InitialRow(m) : m \in 1..MaxModules}, lastID |-> MaxModules,
   inTransaction |-> FALSE, saved |-> NoTransaction]

Exists(d, id) == \E r \in d.rows : r.id = id
RowOf(d, id) == CHOOSE r \in d.rows : r.id = id

\* ORDER BY display_order ASC (rows of equal display_order by id)
RECURSIVE OrderByDisplayOrder(_)
OrderByDisplayOrder(rows) ==
  IF rows = {} THEN <<>>
  ELSE LET first == CHOOSE r \in rows : \A q \in rows :
                      \/ r.display_order < q.display_order
                      \/ r.display_order = q.display_order /\ r.id <= q.id
       IN <<first>> \o OrderByDisplayOrder(rows \ {first})

\* modules.ts lines 19-28: GET /
getAll(d) == OrderByDisplayOrder(d.rows)

\* mutant of put: columns missing from the body are reset to the empty string
putResetsMissing(d, id, body) ==
  IF ~Exists(d, id) THEN [db |-> d, status |-> 404, row |-> NoModule]
  ELSE
    LET cur == RowOf(d, id)
        row == [cur EXCEPT
                  !.title = IF "title" \in body.present THEN body.title ELSE "",
                  !.content = IF "content" \in body.present THEN body.content ELSE "",
                  !.plain_content = IF "plain_content" \in body.present
                                      THEN body.plain_content ELSE "",
                  !.style = IF "style" \in body.present THEN body.style ELSE "",
                  !.persona = IF "persona" \in body.present THEN body.persona ELSE "",
                  !.updated_at = @ + 1]
    IN [db |-> [d EXCEPT !.rows = (@ \ {cur}) \cup {row}], status |-> 200, row |-> row]

\* modules.ts lines 66-111: PUT /:id. The body is a record of the five
\* columns with the set of those that are present (not undefined).
\* (updated_at = CURRENT_TIMESTAMP is a counter of the row's updates.)
put(d, id, body) ==
  IF ~Exists(d, id) THEN [db |-> d, status |-> 404, row |-> NoModule]
  ELSE
    LET cur == RowOf(d, id)
        row == [cur EXCEPT
                  !.title = IF "title" \in body.present THEN body.title ELSE @,
                  !.content = IF "content" \in body.present THEN body.content ELSE @,
                  !.plain_content = IF "plain_content" \in body.present
                                      THEN body.plain_content ELSE @,
                  !.style = IF "style" \in body.present THEN body.style ELSE @,
                  !.persona = IF "persona" \in body.present THEN body.persona ELSE @,
                  !.updated_at = @ + 1]
    IN [db |-> [d EXCEPT !.rows = (@ \ {cur}) \cup {row}], status |-> 200, row |-> row]

\* the largest display_order of the table, 0 for an empty table (line 51)
MaxOrder(d) ==
  IF d.rows = {} THEN 0
  ELSE (CHOOSE r \in d.rows : \A q \in d.rows : q.display_order <= r.display_order).display_order

\* modules.ts lines 46-63: POST /
post(d, body) ==
  LET row == [id |-> d.lastID + 1, title |-> body.title, content |-> body.content,
              plain_content |-> body.plain_content, style |-> body.style,
              persona |-> body.persona, display_order |-> MaxOrder(d) + 1,
              updated_at |-> 0]
  IN [db |-> [d EXCEPT !.rows = @ \cup {row}, !.lastID = @ + 1],
      status |-> 201, row |-> row]

\* modules.ts lines 139-151: DELETE /:id
delete(d, id) ==
  IF ~Exists(d, id) THEN [db |-> d, status |-> 404]
  ELSE [db |-> [d EXCEPT !.rows = @ \ {RowOf(d, id)}], status |-> 204]

\* BEGIN TRANSACTION on the connection (modules.ts line 118): SQLite refuses
\* it while a transaction is open
begin(d) ==
  IF d.inTransaction THEN [db |-> d, ok |-> FALSE]
  ELSE [db |-> [d EXCEPT !.inTransaction = TRUE,
                         !.saved = [rows |-> d.rows, lastID |-> d.lastID]],
        ok |-> TRUE]

\* line 121: UPDATE modules SET display_order = n WHERE id = id
setDisplayOrder(d, id, n) ==
  [d EXCEPT !.rows = {IF r.id = id THEN [r EXCEPT !.display_order = n] ELSE r : r \in @}]

\* COMMIT (line 127): SQLite refuses it when no transaction is open
commit(d) ==
  IF ~d.inTransaction THEN [db |-> d, ok |-> FALSE]
  ELSE [db |-> [d EXCEPT !.inTransaction = FALSE, !.saved = NoTransaction], ok |-> TRUE]

\* ROLLBACK (line 132): everything written on the connection since BEGIN is
\* undone; SQLite refuses it when no transaction is open
rollback(d) ==
  IF ~d.inTransaction THEN [db |-> d, ok |-> FALSE]
  ELSE [db |-> [d EXCEPT !.rows = d.saved.rows, !.lastID = d.saved.lastID,
                         !.inTransaction = FALSE, !.saved = NoTransaction],
        ok |-> TRUE]

(* --------------------------- modules: App ----------------------------- *)

\* what the session controller holds, which nothing of App's changes
session == <<reactState, rendered, refs, objects, flowClient, attempts, stops, now,
             redrainTimers, scheduled, accepted, messages, lastMessage, portMessages,
             editMode, resp>>

\* a request body with no column
NoBody ==
  [present |-> {}, title |-> "", content |-> "", plain_content |-> "", style |-> "",
   persona |-> ""]

\* a call of moduleService in flight: what was asked, the modules and
\* selectedModule the calling function of App closes over, and, once the
\* server has answered, the response
Request(kind, id, body, orderedIds) ==
  [kind |-> kind, id |-> id, body |-> body, orderedIds |-> orderedIds,
   modules |-> modules, selectedModule |-> selectedModule,
   phase |-> "sent", status |-> 0, row |-> NoModule, rows |-> <<>>,
   step |-> 0, stored |-> {}]

\* prevModules.map(mod => mod.id === updated.id ? updated : mod)
MapUpdated(mods, updated) ==
  [i \in DOMAIN mods |-> IF mods[i].id = updated.id THEN updated ELSE mods[i]]

\* modules.filter(mod => mod.id !== id)
FilterOut(mods, id) == SelectSeq(mods, LAMBDA mod : mod.id # id)

RemoveAt(seq, i) == SubSeq(seq, 1, i - 1) \o SubSeq(seq, i + 1, Len(seq))

\* the props of Editor that its reset effect depends on (part_002 line 176)
ResetDeps(sel) == <<sel.id, sel.plain_content, sel.style, sel.persona>>

\* the pending save timers of Editor that count against the bound
Pending == IF saveTimeoutRef.pending THEN 1 ELSE 0

\* mutant of SetSelectedModule: the reset effect leaves a pending save alone
SetSelectedModuleKeepsTimer(sel, err) ==
  /\ selectedModule' = sel
  /\ appError' = err
  /\ mounted' = (sel.id # 0 /\ ~err)
  /\ moduleId' = IF sel.id # 0 THEN sel.id ELSE moduleId
  /\ plainContent' = sel.plain_content
  /\ IF sel.id = 0 \/ err
       THEN /\ localPlainContent' = "" /\ localPersona' = ""
            /\ saveTimeoutRef' = clearTimeout(saveTimeoutRef)
       ELSE IF ~mounted \/ ResetDeps(sel) # ResetDeps(selectedModule)
         THEN /\ localPlainContent' = sel.plain_content
              /\ localPersona' = sel.persona
              /\ UNCHANGED saveTimeoutRef
         ELSE UNCHANGED <<localPlainContent, localPersona, saveTimeoutRef>>
  /\ startSessionStop' =
       IF <<sel.plain_content, sel.style, sel.persona>> #
            <<selectedModule.plain_content, selectedModule.style, selectedModule.persona>>
         THEN [audioContext |-> audioContext, mediaStream |-> mediaStream]
         ELSE startSessionStop

\* setSelectedModule(sel), with err what App's error slot becomes, and the
\* render that follows: App renders Editor only for a module and without an
\* error (moduleService.ts lines 231-237, 286-297). Editor is mounted (part_002
\* lines 133-135), unmounted (the clean-up of lines 527-534 clears the save
\* timer), or gets other props: then its reset effect (lines 161-176) runs
\* when one of its dependencies changed, and startSession is memoised anew
\* when one of its own changed (line 370), closing over this render's
\* stopSession. (App changes its list in edit mode only, where Editor has no
\* voice button: the unmounting branch is that of an Editor without session.)
SetSelectedModule(sel, err) ==
  /\ selectedModule' = sel
  /\ appError' = err
  /\ mounted' = (sel.id # 0 /\ ~err)
  /\ moduleId' = IF sel.id # 0 THEN sel.id ELSE moduleId
  /\ plainContent' = sel.plain_content
  /\ IF sel.id = 0 \/ err
       THEN /\ localPlainContent' = "" /\ localPersona' = ""
            /\ saveTimeoutRef' = clearTimeout(saveTimeoutRef)
       ELSE IF ~mounted \/ ResetDeps(sel) # ResetDeps(selectedModule)
         THEN /\ localPlainContent' = sel.plain_content
              /\ localPersona' = sel.persona
              /\ saveTimeoutRef' = clearTimeout(saveTimeoutRef)
         ELSE UNCHANGED <<localPlainContent, localPersona, saveTimeoutRef>>
  /\ startSessionStop' =
       IF <<sel.plain_content, sel.style, sel.persona>> #
            <<selectedModule.plain_content, selectedModule.style, selectedModule.persona>>
         THEN [audioContext |-> audioContext, mediaStream |-> mediaStream]
         ELSE startSessionStop

\* moduleService.ts lines 207-210: the user picks a module of the list
handleModuleSelect(module) ==
  /\ ~appError
  /\ rendered = CurrentRender
  /\ SetSelectedModule(module, FALSE)
  /\ justStopped' = NoStop
  /\ UNCHANGED <<session, db, modules, requests, issued>>

\* moduleService.ts lines 117-128: addModule up to its await
addModule ==
  /\ ~appError /\ editMode
  /\ issued + Pending < MaxRequests
  /\ requests' = Append(requests,
       Request("create", 0,
               [present |-> FieldNames,
                title |-> "New Module " \o ToString(Len(modules) + 1),
                content |-> "Start writing your content here...",
                plain_content |-> "", style |-> "", persona |-> ""], <<>>))
  /\ issued' = issued + 1
  /\ justStopped' = NoStop
  /\ UNCHANGED <<session, hosting, localPlainContent, plainContent, saveTimeoutRef, db,
                 modules, selectedModule, appError, localPersona>>

\* moduleService.ts lines 188-192: deleteModule up to its await
deleteModule(id) ==
  /\ ~appError /\ editMode
  /\ issued + Pending < MaxRequests
  /\ requests' = Append(requests, Request("delete", id, NoBody, <<>>))
  /\ issued' = issued + 1
  /\ justStopped' = NoStop
  /\ UNCHANGED <<session, hosting, localPlainContent, plainContent, saveTimeoutRef, db,
                 modules, selectedModule, appError, localPersona>>

\* Sidebar.tsx lines 57-68: the list with the dragged module put where the
\* target is
Dropped(mods, draggedIndex, targetIndex) ==
  LET rest == RemoveAt(mods, draggedIndex)
  IN SubSeq(rest, 1, targetIndex - 1) \o <<mods[draggedIndex]>> \o
     SubSeq(rest, targetIndex, Len(rest))

\* Sidebar.tsx lines 53-71 and moduleService.ts lines 212-215: a module is
\* dropped on another one; handleReorderModules up to its await
handleDrop(draggedIndex, targetIndex) ==
  LET currentModules == Dropped(modules, draggedIndex, targetIndex) IN
  /\ ~appError /\ editMode
  /\ draggedIndex # targetIndex
  /\ issued + Pending < MaxRequests
  /\ requests' = Append(requests,
       Request("reorder", 0, NoBody,
               [i \in DOMAIN currentModules |-> currentModules[i].id]))
  /\ issued' = issued + 1
  /\ justStopped' = NoStop
  /\ UNCHANGED <<session, hosting, localPlainContent, plainContent, saveTimeoutRef, db,
                 modules, selectedModule, appError, localPersona>>

\* the server handles an update, a creation or a deletion (modules.ts) and
\* answers
ServerHandles(i) ==
  LET r == requests[i]
      res == CASE r.kind = "update" -> put(db, r.id, r.body)
               [] r.kind = "create" -> post(db, r.body)
               [] r.kind = "delete" -> delete(db, r.id)
  IN
  /\ i \in DOMAIN requests
  /\ r.kind # "reorder"
  /\ r.phase = "sent"
  /\ db' = res.db
  /\ requests' = [requests EXCEPT ![i] =
       [r EXCEPT !.phase = "answered", !.status = res.status,
                 !.row = IF r.kind \in {"update", "create"} THEN res.row ELSE NoModule]]
  /\ justStopped' = NoStop
  /\ UNCHANGED <<session, hosting, localPlainContent, plainContent, saveTimeoutRef,
                 modules, selectedModule, appError, localPersona, issued>>

\* the rows as of the last commit: what a ROLLBACK would leave
CommittedRows(d) == IF d.inTransaction THEN d.saved.rows ELSE d.rows

\* modules.ts lines 130-134: the catch block of POST /reorder after a
\* statement has thrown with the database as d. The handler answers 500 when
\* its ROLLBACK succeeds; when ROLLBACK throws, the handler's promise is
\* rejected with nobody to catch it and the request is never answered.
ReorderCatch(i, d) ==
  LET back == rollback(d) IN
  /\ db' = back.db
  /\ requests' = [requests EXCEPT ![i] =
       [@ EXCEPT !.phase = IF back.ok THEN "answered" ELSE "unanswered",
                 !.status = IF back.ok THEN 500 ELSE 0,
                 !.stored = IF @ = {} THEN CommittedRows(db) ELSE @]]

\* what no step of the reorder handler changes
ReorderFrame ==
  /\ justStopped' = NoStop
  /\ UNCHANGED <<session, hosting, localPlainContent, plainContent, saveTimeoutRef,
                 modules, selectedModule, appError, localPersona, issued>>

\* modules.ts lines 117-118: the handler of POST /reorder begins its
\* transaction. (stored is history: the committed rows when the handler
\* began.)
ReorderBegin(i) ==
  LET r == requests[i]
      b == begin(db)
  IN
  /\ i \in DOMAIN requests
  /\ r.kind = "reorder" /\ r.phase = "sent"
  /\ IF b.ok
       THEN /\ db' = b.db
            /\ requests' = [requests EXCEPT ![i] =
                 [r EXCEPT !.phase = "begun", !.stored = CommittedRows(db)]]
       ELSE ReorderCatch(i, db)
  /\ ReorderFrame

\* lines 120-125: the next UPDATE of the loop, awaited like every statement:
\* the statements of other handlers run between two of them
ReorderUpdate(i) ==
  LET r == requests[i] IN
  /\ i \in DOMAIN requests
  /\ r.kind = "reorder" /\ r.phase = "begun"
  /\ r.step < Len(r.orderedIds)
  /\ db' = setDisplayOrder(db, r.orderedIds[r.step + 1], r.step + 1)
  /\ requests' = [requests EXCEPT ![i] = [r EXCEPT !.step = @ + 1]]
  /\ ReorderFrame

\* lines 127-129: COMMIT, then the rows in their order as the answer
ReorderCommit(i) ==
  LET r == requests[i]
      c == commit(db)
  IN
  /\ i \in DOMAIN requests
  /\ r.kind = "reorder" /\ r.phase = "begun"
  /\ r.step = Len(r.orderedIds)
  /\ IF c.ok
       THEN /\ db' = c.db
            /\ requests' = [requests EXCEPT ![i] =
                 [r EXCEPT !.phase = "answered", !.status = 200, !.rows = getAll(c.db)]]
       ELSE ReorderCatch(i, db)
  /\ ReorderFrame

\* an UPDATE or the COMMIT of the handler throws for a reason of the
\* database's own (the file cannot be written, the database is locked by
\* another process)
ReorderFails(i) ==
  LET r == requests[i] IN
  /\ i \in DOMAIN requests
  /\ r.kind = "reorder" /\ r.phase = "begun"
  /\ ReorderCatch(i, db)
  /\ ReorderFrame

\* response.ok
Ok(status) == status \in 200..299

\* the awaiting function of App goes on with the response: addModule (lines
\* 130-136), updateModuleContent (151-159), deleteModule (194-204),
\* handleReorderModules (216-220). A response that is not ok makes
\* moduleService throw and App show its error page.
Completes(i) ==
  LET r == requests[i]
      newModules == FilterOut(r.modules, r.id)
  IN
  /\ i \in DOMAIN requests
  /\ r.phase = "answered"
  /\ requests' = RemoveAt(requests, i)
  /\ IF ~Ok(r.status)
       THEN /\ UNCHANGED modules
            /\ SetSelectedModule(selectedModule, TRUE)
       ELSE CASE r.kind = "create" ->
                   /\ modules' = Append(r.modules, r.row)
                   /\ SetSelectedModule(r.row, appError)
              [] r.kind = "update" ->
                   /\ modules' = MapUpdated(modules, r.row)
                   /\ SetSelectedModule(r.row, appError)
              [] r.kind = "delete" ->
                   /\ modules' = newModules
                   /\ SetSelectedModule(
                        IF r.selectedModule.id = r.id /\ newModules # <<>>
                          THEN newModules[1]
                          ELSE IF newModules = <<>> THEN NoModule ELSE selectedModule,
                        appError)
              [] r.kind = "reorder" ->
                   /\ modules' = r.rows
                   /\ SetSelectedModule(selectedModule, appError)
  /\ justStopped' = NoStop
  /\ UNCHANGED <<session, db, issued>>

\* the user selects the next module of the list: App renders the same Editor
\* with other props (moduleId, plainContent, style, persona). No dependency of
\* the clean-up effect (line 569) changes.
SelectModule ==
  /\ mounted
  /\ moduleId < MaxModules
  /\ \E i \in DOMAIN modules :
       modules[i].id = moduleId + 1 /\ handleModuleSelect(modules[i])

\* an agentAudio event of the open conversation: flowClient calls every
\* registered agentAudio listener with the frame
AgentAudio(len, bound) ==
  LET n == Cardinality(agentAudioListeners)
      k == Deliver(PlaybackState, n, len, now) IN
  /\ conversation = "open"
  /\ n > 0
  /\ accepted + n <= bound
  /\ Len(k.pbs) <= MaxPlayback
  /\ SetPlayback(k)
  /\ justStopped' = NoStop
  /\ UNCHANGED <<reactState, rendered, hosting, transcripts, offSession, abortControllerRef,
                 workletNodeRef, messageHandlerRef, audioHandlerRef, controllers,
                 captureContexts, streams, workletNodes, flowClient, attempts, stops,
                 now>>

\* line 323: the text put in the error slot for a transport error event
FlowClientError(message) ==
  "Flow client error: " \o (IF message = "" THEN "Unknown error" ELSE message)

\* mutant of messageHandler: a transport error also ends the session
messageHandlerStopsOnError(st, event) ==
  IF event.type = "transcript"
    THEN IF event.is_final THEN [st EXCEPT !.text = @ \o " " \o event.text] ELSE st
    ELSE IF event.type = "error"
      THEN [st EXCEPT !.error = FlowClientError(event.message), !.listening = FALSE]
      ELSE st

\* lines 311-325: messageHandler, on the state it can change (the working
\* context text, the error slot; listening is there for it to leave alone)
messageHandler(st, event) ==
  IF event.type = "transcript"
    THEN IF event.is_final THEN [st EXCEPT !.text = @ \o " " \o event.text] ELSE st
    ELSE IF event.type = "error"
      THEN [st EXCEPT !.error = FlowClientError(event.message)]
      ELSE st

\* flowClient calls every registered message listener with the event
RECURSIVE DeliverMessage(_, _, _)
DeliverMessage(st, n, event) ==
  IF n = 0 THEN st ELSE DeliverMessage(messageHandler(st, event), n - 1, event)

\* a message event of the open conversation
Message(event) ==
  LET n == Cardinality(messageListeners)
      st == DeliverMessage([text |-> localPlainContent, error |-> error,
                            listening |-> isListening], n, event) IN
  /\ conversation = "open"
  /\ n > 0
  /\ messages < MaxMessages
  /\ messages' = messages + 1
  /\ lastMessage' = event
  /\ localPlainContent' = st.text
  /\ error' = st.error
  /\ isListening' = st.listening
  /\ justStopped' = NoStop
  /\ UNCHANGED <<isConnecting, audioContext, mediaStream, rendered, hosting, offSession, refs,
                 objects, flowClient, attempts, stops, now, redrainTimers, scheduled,
                 accepted>>

\* line 216: a redrain timer fires and calls processAudioQueue
RedrainTimer ==
  /\ redrainTimers # <<>>
  /\ Head(redrainTimers) <= now
  /\ SetPlayback(processAudioQueue([PlaybackState EXCEPT !.timers = Tail(@)], now))
  /\ justStopped' = NoStop
  /\ UNCHANGED <<reactState, rendered, hosting, transcripts, offSession, abortControllerRef,
                 workletNodeRef, messageHandlerRef, audioHandlerRef, controllers,
                 captureContexts, streams, workletNodes, flowClient, attempts, stops,
                 now>>

\* time passes
Tick(d) ==
  /\ now + d <= MaxTime
  /\ now' = now + d
  /\ justStopped' = NoStop
  /\ UNCHANGED <<reactState, rendered, hosting, transcripts, offSession, refs, objects, flowClient,
                 attempts, stops, redrainTimers, scheduled, accepted>>

(* ------------------------------ saving --------------------------------- *)

\* the body updateModuleContent sends (moduleService.ts lines 143-149) for
\* the selectedModule it closes over: its title and the content always, the
\* other columns when the argument is not undefined (present names them)
UpdateBody(sel, present, content, plain_content, style, persona) ==
  [present |-> {"title", "content"} \cup present, title |-> sel.title,
   content |-> content, plain_content |-> plain_content, style |-> style,
   persona |-> persona]

\* lines 571-586: the user edits the context textarea, which is rendered in
\* edit mode only (line 735); the save is put off by a second. The timer's
\* callback closes over this render's onChange (App's updateModuleContent and
\* its selectedModule) and localPersona.
handlePlainContentChange(newContent) ==
  /\ mounted
  /\ editMode
  /\ newContent # localPlainContent
  /\ issued < MaxRequests
  /\ localPlainContent' = newContent
  /\ saveTimeoutRef' = [pending |-> TRUE, cleared |-> FALSE,
                        selectedModule |-> selectedModule,
                        plain_content |-> newContent, persona |-> localPersona]
  /\ justStopped' = NoStop
  /\ UNCHANGED <<session, hosting, plainContent, app>>

\* lines 605-620: the same for the persona textarea
handlePersonaChange(newPersona) ==
  /\ mounted
  /\ editMode
  /\ newPersona # localPersona
  /\ issued < MaxRequests
  /\ localPersona' = newPersona
  /\ saveTimeoutRef' = [pending |-> TRUE, cleared |-> FALSE,
                        selectedModule |-> selectedModule,
                        plain_content |-> localPlainContent, persona |-> newPersona]
  /\ justStopped' = NoStop
  /\ UNCHANGED <<session, hosting, localPlainContent, plainContent, db, modules,
                 selectedModule, appError, requests, issued>>

\* moduleService.ts lines 139-149: updateModuleContent up to its await, called
\* with the selectedModule of the current render; present names the optional
\* arguments that are not undefined. Quill's debounced save calls it with the
\* HTML alone (part_002 lines 511-523), the textareas' with all four
\* arguments (lines 571-620).
updateModuleContent(content, present, plain_content, style, persona) ==
  /\ ~appError /\ editMode
  /\ selectedModule.id # 0
  /\ issued + Pending < MaxRequests
  /\ requests' = Append(requests,
       Request("update", selectedModule.id,
               UpdateBody(selectedModule, present, content, plain_content, style,
                          persona), <<>>))
  /\ issued' = issued + 1
  /\ justStopped' = NoStop
  /\ UNCHANGED <<session, hosting, localPlainContent, plainContent, saveTimeoutRef, db,
                 modules, selectedModule, appError, localPersona>>

\* lines 582-585: the save timer fires and calls onChange, App's
\* updateModuleContent (moduleService.ts lines 139-143): outside edit mode or
\* without a selected module it returns at once; otherwise it sends the update
\* and awaits the answer. (The rich text and the style are not edited here:
\* the editor's HTML and localStyle are the module's content and style.)
SaveTimeout ==
  LET sel == saveTimeoutRef.selectedModule IN
  /\ saveTimeoutRef.pending
  /\ saveTimeoutRef' = NoTimeout
  /\ IF editMode /\ sel.id # 0
       THEN /\ requests' = Append(requests,
                 [Request("update", sel.id,
                          UpdateBody(sel, {"plain_content", "style", "persona"},
                                     sel.content, saveTimeoutRef.plain_content,
                                     sel.style, saveTimeoutRef.persona), <<>>)
                    EXCEPT !.selectedModule = sel])
            /\ issued' = issued + 1
       ELSE UNCHANGED <<requests, issued>>
  /\ justStopped' = NoStop
  /\ UNCHANGED <<session, hosting, localPlainContent, plainContent, db, modules,
                 selectedModule, appError, localPersona>>

(* --------------------------- capture worklet -------------------------- *)

Min(a, b) == IF a <= b THEN a ELSE b

\* the Int16Array store of line 10 (ToInt16): the fraction is dropped, then
\* the integer is taken modulo 2^16 into the signed range
ToInt16(q) ==
  LET int == IF q >= 0 THEN q \div SubSteps ELSE -((-q) \div SubSteps) IN
  ((int - Int16Min) % (2 * FullScale)) + Int16Min

\* mutant of EncodeSample: the product is stored without Math.max / Math.min
EncodeSampleUnclamped(sample) == ToInt16(sample)

\* audio-processor.js line 10, for one sample (sample is channelData[i] * 32768
\* in quarters)
EncodeSample(sample) ==
  ToInt16(Max(Int16Min * SubSteps, Min(Int16Max * SubSteps, sample)))

\* line 193 of Editor: an Int16 value decoded to a float (value / 32768), in
\* the unit of the input samples
DecodeSample(value) == value * SubSteps

\* what a call of process() on the input frame channelData leaves: whether
\* the frame was there and its samples, whether a frame was posted on the
\* port and its values, and what process() returned (alive)
Processed(channelData, posted, audio, alive) ==
  [defined |-> channelData.defined, input |-> channelData.samples,
   posted |-> posted, audio |-> audio, alive |-> alive]

\* mutant of process: the last sample of a block is kept and sent again at
\* the head of the next frame
processKeepsTail(channelData) ==
  LET last == IF portMessages = <<>> THEN <<>>
              ELSE LET in == portMessages[Len(portMessages)].input
                   IN IF in = <<>> THEN <<>> ELSE <<in[Len(in)]>>
      samples == last \o channelData.samples
  IN
  /\ Len(portMessages) < MaxQuanta
  /\ \A m \in 1..Len(portMessages) : portMessages[m].alive
  /\ portMessages' =
       IF channelData.defined
         THEN Append(portMessages,
                     Processed(channelData, TRUE,
                               [i \in 1..Len(samples) |-> EncodeSample(samples[i])],
                               TRUE))
         ELSE Append(portMessages, Processed(channelData, FALSE, <<>>, TRUE))
  /\ justStopped' = NoStop
  /\ UNCHANGED <<reactState, rendered, hosting, transcripts, editMode, plainContent,
                 saveTimeoutRef, resp, app, refs, objects, flowClient,
                 attempts, stops, now, redrainTimers, scheduled, accepted>>

\* audio-processor.js lines 2-17: process() for one input frame. The audio
\* subsystem calls it for the next frame as long as it has returned true
\* (line 16).
process(channelData) ==
  /\ Len(portMessages) < MaxQuanta
  /\ \A m \in 1..Len(portMessages) : portMessages[m].alive
  /\ portMessages' =
       IF channelData.defined
         THEN Append(portMessages,
                     Processed(channelData, TRUE,
                               [i \in 1..Len(channelData.samples) |->
                                  EncodeSample(channelData.samples[i])],
                               TRUE))
         ELSE Append(portMessages, Processed(channelData, FALSE, <<>>, TRUE))
  /\ justStopped' = NoStop
  /\ UNCHANGED <<reactState, rendered, hosting, transcripts, editMode, plainContent,
                 saveTimeoutRef, resp, app, refs, objects, flowClient,
                 attempts, stops, now, redrainTimers, scheduled, accepted>>

(* --------------------------- specifications --------------------------- *)

\* the component as mounted: no session, nothing held
Init ==
  /\ isListening = FALSE /\ isConnecting = FALSE /\ error = "none"
  /\ audioContext = 0 /\ mediaStream = 0
  /\ rendered = [isListening |-> FALSE, isConnecting |-> FALSE,
                 audioContext |-> 0, mediaStream |-> 0]
  /\ startSessionStop = [audioContext |-> 0, mediaStream |-> 0]
  /\ mounted = TRUE /\ moduleId = 1
  /\ localPlainContent = PlainContentOf(1) /\ messages = 0
  /\ lastMessage = [type |-> "none", is_final |-> FALSE, text |-> "", message |-> ""]
  /\ portMessages = <<>>
  /\ editMode \in BOOLEAN /\ plainContent = PlainContentOf(1)
  /\ saveTimeoutRef = NoTimeout /\ resp = NoResponse
  /\ db = InitialDb /\ modules = getAll(InitialDb) /\ selectedModule = InitialRow(1)
  /\ appError = FALSE /\ localPersona = "" /\ requests = <<>> /\ issued = 0
  /\ abortControllerRef = 0 /\ workletNodeRef = 0 /\ playbackContextRef = 0
  /\ nextPlayTimeRef = 0 /\ audioQueueRef = <<>> /\ isProcessingRef = FALSE
  /\ messageHandlerRef = 0 /\ audioHandlerRef = 0
  /\ controllers = [a \in Attempts |-> "none"]
  /\ captureContexts = [a \in Attempts |-> "none"]
  /\ streams = [a \in Attempts |-> "none"]
  /\ workletNodes = [a \in Attempts |-> "none"]
  /\ playbackContexts = <<>>
  /\ messageListeners = {} /\ agentAudioListeners = {} /\ conversation = "none"
  /\ attempts = [a \in Attempts |-> IdleAttempt]
  /\ stops = [s \in StopSlots |-> IdleStop]
  /\ now = 0 /\ redrainTimers = <<>> /\ scheduled = <<>> /\ accepted = 0
  /\ justStopped = NoStop

Next ==
  \/ ClickStart
  \/ ClickStop
  \/ Render
  \/ RenderStopsSession
  \/ \E s \in StopSlots : StopCaptureClosed(s)
  \/ \E s \in StopSlots : StopPlaybackClosed(s)
  \/ \E s \in StopSlots : StopSleepDone(s)
  \/ \E a \in Attempts : CredentialAborted(a)
  \/ \E a \in Attempts, response \in FailedResponses : CredentialFails(a, response)
  \/ \E a \in Attempts : CredentialOk(a)
  \/ \E a \in Attempts : PlaybackCloseOk(a)
  \/ \E a \in Attempts : ConversationOk(a)
  \/ \E a \in Attempts : ConversationFails(a)
  \/ \E a \in Attempts : GetUserMediaOk(a)
  \/ \E a \in Attempts : GetUserMediaFails(a)
  \/ \E a \in Attempts : AddModuleOk(a)
  \/ \E a \in Attempts : AddModuleFails(a)
  \/ \E len \in FrameLens : AgentAudio(len, CtlFrames)

Spec == Init /\ [][Next]_vars

\* One session under its host: a single start attempt, and Editor can be
\* unmounted and given another module at any point of it
LifeNext ==
  \/ attempts[1].pc = "idle" /\ ClickStart
  \/ ClickStop
  \/ Render
  \/ RenderStopsSession
  \/ Unmount
  \/ SelectModule
  \/ \E s \in StopSlots : StopCaptureClosed(s)
  \/ \E s \in StopSlots : StopPlaybackClosed(s)
  \/ \E s \in StopSlots : StopSleepDone(s)
  \/ \E a \in Attempts : CredentialAborted(a)
  \/ \E a \in Attempts, response \in FailedResponses : CredentialFails(a, response)
  \/ \E a \in Attempts : CredentialOk(a)
  \/ \E a \in Attempts : ConversationOk(a)
  \/ \E a \in Attempts : ConversationFails(a)
  \/ \E a \in Attempts : GetUserMediaOk(a)
  \/ \E a \in Attempts : GetUserMediaFails(a)
  \/ \E a \in Attempts : AddModuleOk(a)
  \/ \E a \in Attempts : AddModuleFails(a)

LifeSpec == Init /\ [][LifeNext]_vars

\* The controller with the message events of the transport, without agent
\* audio and with every request of a start attempt succeeding
MsgNext ==
  \/ ClickStart
  \/ ClickStop
  \/ Render
  \/ RenderStopsSession
  \/ \E s \in StopSlots : StopCaptureClosed(s)
  \/ \E s \in StopSlots : StopPlaybackClosed(s)
  \/ \E s \in StopSlots : StopSleepDone(s)
  \/ \E a \in Attempts : CredentialAborted(a)
  \/ \E a \in Attempts : CredentialOk(a)
  \/ \E a \in Attempts : PlaybackCloseOk(a)
  \/ \E a \in Attempts : ConversationOk(a)
  \/ \E a \in Attempts : GetUserMediaOk(a)
  \/ \E a \in Attempts : AddModuleOk(a)
  \/ \E event \in MessageEvents : Message(event)

MsgSpec == Init /\ [][MsgNext]_vars

\* The controller of a user who waits for one start attempt to finish before
\* the next click on start, on a platform where close() of the capture
\* context may reject
FaultNext ==
  \/ StartsInProgressNone /\ ClickStart
  \/ ClickStop
  \/ Render
  \/ RenderStopsSession
  \/ SelectModule
  \/ \E s \in StopSlots : StopCaptureClosed(s)
  \/ \E s \in StopSlots : StopCaptureCloseFails(s)
  \/ \E s \in StopSlots : StopPlaybackClosed(s)
  \/ \E s \in StopSlots : StopSleepDone(s)
  \/ \E a \in Attempts : CredentialAborted(a)
  \/ \E a \in Attempts : CredentialOk(a)
  \/ \E a \in Attempts : ConversationOk(a)
  \/ \E a \in Attempts : GetUserMediaOk(a)
  \/ \E a \in Attempts : GetUserMediaFails(a)
  \/ \E a \in Attempts : AddModuleOk(a)
  \/ \E len \in FrameLens : AgentAudio(len, CtlFrames)

FaultSpec == Init /\ [][FaultNext]_vars

\* One session and the saving of the context text: a single start attempt
\* whose requests succeed, the transport's message events, and the user's
\* edits in edit mode
SaveNext ==
  \/ attempts[1].pc = "idle" /\ ClickStart
  \/ ClickStop
  \/ Render
  \/ \E s \in StopSlots : StopCaptureClosed(s)
  \/ \E s \in StopSlots : StopPlaybackClosed(s)
  \/ \E s \in StopSlots : StopSleepDone(s)
  \/ \E a \in Attempts : CredentialOk(a)
  \/ \E a \in Attempts : ConversationOk(a)
  \/ \E a \in Attempts : GetUserMediaOk(a)
  \/ \E a \in Attempts : AddModuleOk(a)
  \/ \E event \in MessageEvents : Message(event)
  \/ \E newContent \in TextareaValues : handlePlainContentChange(newContent)
  \/ SaveTimeout
  \/ \E i \in 1..MaxRequests : ServerHandles(i)
  \/ \E i \in 1..MaxRequests : Completes(i)

\* what happens without the user: timers fire, promises settle, React renders
SaveFairness ==
  /\ WF_vars(SaveTimeout)
  /\ WF_vars(\E i \in 1..MaxRequests : ServerHandles(i) \/ Completes(i))
  /\ WF_vars(Render)
  /\ WF_vars(\E s \in StopSlots :
               StopCaptureClosed(s) \/ StopPlaybackClosed(s) \/ StopSleepDone(s))
  /\ WF_vars(\E a \in Attempts :
               CredentialOk(a) \/ ConversationOk(a) \/ GetUserMediaOk(a) \/ AddModuleOk(a))

SaveSpec == Init /\ [][SaveNext]_vars /\ SaveFairness

\* One session while the user goes from module to module: a single start
\* attempt whose requests succeed, the transport's message events, and the
\* selection of another module
SwitchNext ==
  \/ attempts[1].pc = "idle" /\ ClickStart
  \/ ClickStop
  \/ Render
  \/ RenderStopsSession
  \/ SelectModule
  \/ \E s \in StopSlots : StopCaptureClosed(s)
  \/ \E s \in StopSlots : StopPlaybackClosed(s)
  \/ \E s \in StopSlots : StopSleepDone(s)
  \/ \E a \in Attempts : CredentialOk(a)
  \/ \E a \in Attempts : ConversationOk(a)
  \/ \E a \in Attempts : GetUserMediaOk(a)
  \/ \E a \in Attempts : AddModuleOk(a)
  \/ \E event \in MessageEvents : Message(event)

SwitchSpec == Init /\ [][SwitchNext]_vars

\* App in edit mode with its server: the user selects, adds and deletes
\* modules and edits the context and the persona of the selected one;
\* requests are handled and answered in any order
AppInit == Init /\ editMode

AppNext ==
  \/ \E i \in DOMAIN modules : handleModuleSelect(modules[i])
  \/ addModule
  \/ \E i \in DOMAIN modules : deleteModule(modules[i].id)
  \/ \E newContent \in TextareaValues : handlePlainContentChange(newContent)
  \/ \E newPersona \in PersonaValues : handlePersonaChange(newPersona)
  \/ SaveTimeout
  \/ \E i \in 1..MaxRequests : ServerHandles(i)
  \/ \E i \in 1..MaxRequests : Completes(i)

\* what happens without the user: the save timer fires, the server answers,
\* the awaiting function goes on
AppFairness ==
  /\ WF_vars(SaveTimeout)
  /\ WF_vars(\E i \in 1..MaxRequests : ServerHandles(i))
  /\ WF_vars(\E i \in 1..MaxRequests : Completes(i))

AppSpec == AppInit /\ [][AppNext]_vars

\* Editor in edit mode on the modules the page loaded: the user selects a
\* module and edits its context and persona; saves are sent, handled and
\* answered
EditNext ==
  \/ \E i \in DOMAIN modules : handleModuleSelect(modules[i])
  \/ \E newContent \in TextareaValues : handlePlainContentChange(newContent)
  \/ \E newPersona \in PersonaValues : handlePersonaChange(newPersona)
  \/ SaveTimeout
  \/ \E i \in 1..MaxRequests : ServerHandles(i)
  \/ \E i \in 1..MaxRequests : Completes(i)

EditSpec == AppInit /\ [][EditNext]_vars /\ AppFairness

\* the optional arguments of updateModuleContent
OptionalFields == {"plain_content", "style", "persona"}

\* PUT /api/modules/:id as App calls it: updates of the selected module with
\* any of the optional columns, next to selections and deletions (an update
\* in flight can reach the server after its module was deleted)
ApiNext ==
  \/ \E i \in DOMAIN modules : handleModuleSelect(modules[i])
  \/ \E i \in DOMAIN modules : deleteModule(modules[i].id)
  \/ \E present \in SUBSET OptionalFields :
       updateModuleContent("<p>h</p>", present, "", "s", "p")
  \/ \E i \in 1..MaxRequests : ServerHandles(i)
  \/ \E i \in 1..MaxRequests : Completes(i)

ApiSpec == AppInit /\ [][ApiNext]_vars

\* the sidebar in edit mode with its server: the user adds modules, drags
\* them to other places and edits the context of the selected one; the
\* statements of the handlers run on the one connection in any order, and a
\* statement of a reorder can fail
ReorderNext ==
  \/ addModule
  \/ \E i, j \in DOMAIN modules : handleDrop(i, j)
  \/ \E newContent \in TextareaValues : handlePlainContentChange(newContent)
  \/ SaveTimeout
  \/ \E i \in 1..MaxRequests : ServerHandles(i)
  \/ \E i \in 1..MaxRequests : ReorderBegin(i)
  \/ \E i \in 1..MaxRequests : ReorderUpdate(i)
  \/ \E i \in 1..MaxRequests : ReorderCommit(i)
  \/ \E i \in 1..MaxRequests : ReorderFails(i)
  \/ \E i \in 1..MaxRequests : Completes(i)

ReorderSpec == AppInit /\ [][ReorderNext]_vars

\* every state update has been rendered
Committed == rendered = CurrentRender

\* The controller with agent audio and the passing of time: every request of
\* a start attempt succeeds; the user clicks, a frame (of PlayFrameLen samples,
\* up to PlayFrames of them) arrives and the clock advances (by PlayTick) only
\* when React has committed every state update
PlayNext ==
  \/ Render
  \/ RenderStopsSession
  \/ Committed /\ ClickStart
  \/ Committed /\ ClickStop
  \/ \E s \in StopSlots : StopCaptureClosed(s)
  \/ \E s \in StopSlots : StopPlaybackClosed(s)
  \/ \E s \in StopSlots : StopSleepDone(s)
  \/ \E a \in Attempts : CredentialAborted(a)
  \/ \E a \in Attempts : CredentialOk(a)
  \/ \E a \in Attempts : PlaybackCloseOk(a)
  \/ \E a \in Attempts : ConversationOk(a)
  \/ \E a \in Attempts : GetUserMediaOk(a)
  \/ \E a \in Attempts : AddModuleOk(a)
  \/ Committed /\ AgentAudio(PlayFrameLen, PlayFrames)
  \/ Committed /\ Tick(PlayTick)

PlaySpec == Init /\ [][PlayNext]_vars

\* The controller with the capture path: the user clicks when React has
\* committed every state update; no agent audio
CaptureNext ==
  \/ Render
  \/ RenderStopsSession
  \/ Committed /\ ClickStart
  \/ Committed /\ ClickStop
  \/ \E s \in StopSlots : StopCaptureClosed(s)
  \/ \E s \in StopSlots : StopPlaybackClosed(s)
  \/ \E s \in StopSlots : StopSleepDone(s)
  \/ \E a \in Attempts : CredentialAborted(a)
  \/ \E a \in Attempts, response \in FailedResponses : CredentialFails(a, response)
  \/ \E a \in Attempts : CredentialOk(a)
  \/ \E a \in Attempts : PlaybackCloseOk(a)
  \/ \E a \in Attempts : ConversationOk(a)
  \/ \E a \in Attempts : ConversationFails(a)
  \/ \E a \in Attempts : GetUserMediaOk(a)
  \/ \E a \in Attempts : GetUserMediaFails(a)
  \/ \E a \in Attempts : AddModuleOk(a)
  \/ \E a \in Attempts : AddModuleFails(a)
  \/ \E a \in Attempts : WorkletMessage(a)

CaptureSpec == Init /\ [][CaptureNext]_vars

\* The capture worklet alone, on its first input frame
EncNext == portMessages = <<>> /\ \E channelData \in ChannelFrames : process(channelData)

EncSpec == Init /\ [][EncNext]_vars

\* the input frames of a run of blocks: no channel, or up to MaxSamples
\* samples out of silence, a quiet sample and one beyond full scale
BlockSamples == {0, -5, 2 * FullScale * SubSteps}
BlockFrames ==
  {channelData \in ChannelFrames :
     \A i \in 1..Len(channelData.samples) : channelData.samples[i] \in BlockSamples}

\* The capture worklet alone, on a run of up to MaxQuanta input frames
BlockNext == \E channelData \in BlockFrames : process(channelData)

BlockSpec == Init /\ [][BlockNext]_vars

\* The playback scheduler alone, within one session: the state a first
\* successful start leaves (attempt 1 Active and rendered), fed with frames at
\* any arrival timing.
SchedInit ==
  /\ isListening = TRUE /\ isConnecting = FALSE /\ error = "none"
  /\ audioContext = 1 /\ mediaStream = 1
  /\ rendered = [isListening |-> TRUE, isConnecting |-> FALSE,
                 audioContext |-> 1, mediaStream |-> 1]
  /\ startSessionStop = [audioContext |-> 0, mediaStream |-> 0]
  /\ mounted = TRUE /\ moduleId = 1
  /\ localPlainContent = PlainContentOf(1) /\ messages = 0
  /\ lastMessage = [type |-> "none", is_final |-> FALSE, text |-> "", message |-> ""]
  /\ portMessages = <<>>
  /\ editMode = FALSE /\ plainContent = PlainContentOf(1)
  /\ saveTimeoutRef = NoTimeout /\ resp = NoResponse
  /\ db = InitialDb /\ modules = getAll(InitialDb) /\ selectedModule = InitialRow(1)
  /\ appError = FALSE /\ localPersona = "" /\ requests = <<>> /\ issued = 0
  /\ abortControllerRef = 0 /\ workletNodeRef = 1 /\ playbackContextRef = 1
  /\ nextPlayTimeRef = 0 /\ audioQueueRef = <<>> /\ isProcessingRef = FALSE
  /\ messageHandlerRef = 1 /\ audioHandlerRef = 1
  /\ controllers = [a \in Attempts |-> IF a = 1 THEN "live" ELSE "none"]
  /\ captureContexts = [a \in Attempts |-> IF a = 1 THEN "running" ELSE "none"]
  /\ streams = [a \in Attempts |-> IF a = 1 THEN "live" ELSE "none"]
  /\ workletNodes = [a \in Attempts |-> IF a = 1 THEN "connected" ELSE "none"]
  /\ playbackContexts = <<NewPlaybackContext(0, 1)>>
  /\ messageListeners = {1} /\ agentAudioListeners = {1} /\ conversation = "open"
  /\ attempts = [a \in Attempts |->
                   IF a = 1 THEN [IdleAttempt EXCEPT !.pc = "done", !.result = "active",
                                                     !.credentials = TRUE,
                                                     !.handshake = TRUE,
                                                     !.module = 1]
                   ELSE IdleAttempt]
  /\ stops = [s \in StopSlots |-> IdleStop]
  /\ now = 0 /\ redrainTimers = <<>> /\ scheduled = <<>> /\ accepted = 0
  /\ justStopped = NoStop

SchedNext ==
  \/ \E len \in FrameLens : AgentAudio(len, MaxFrames)
  \/ \E d \in TickSteps : Tick(d)

SchedSpec == SchedInit /\ [][SchedNext]_vars

\* the lengths of the frames the transport can deliver: an agentAudio event
\* carries the Int16Array of a binary message, which can be empty
AnyFrameLens == FrameLens \cup {0}

\* The playback scheduler alone, as in SchedSpec, fed with frames of any
\* length
DrainNext ==
  \/ \E len \in AnyFrameLens : AgentAudio(len, MaxFrames)
  \/ \E d \in TickSteps : Tick(d)

DrainSpec == SchedInit /\ [][DrainNext]_vars


(* ========================= Playback scheduler claims ================== *)

SchedIdx == 1..Len(scheduled)
SameContext(i, j) == scheduled[i].ctx = scheduled[j].ctx
EndOf(i) == scheduled[i].start + scheduled[i].dur

\* C3: within one playback context the start times handed to source.start
\* never decrease, and a frame never starts before the frame scheduled before
\* it has ended (no two scheduled frames overlap), at any arrival timing.
C3_NoOverlap ==
  \A i, j \in SchedIdx :
    (i < j /\ SameContext(i, j)) =>
      /\ scheduled[j].start >= scheduled[i].start
      /\ scheduled[j].start >= EndOf(i)

\* C3 witness: three frames scheduled, one that arrived while its predecessor
\* was still to be played and one that arrived after its predecessor had ended
C3_Witness ==
  /\ Len(scheduled) = 3
  /\ \E i \in SchedIdx : i > 1 /\ scheduled[i].now < EndOf(i - 1)
  /\ \E i \in SchedIdx : i > 1 /\ scheduled[i].now > EndOf(i - 1)

\* C4: frames are scheduled in exactly the order queueAudio accepted them: the
\* k-th scheduled frame is the k-th accepted one, the frames still queued are
\* the following ones in order, and none is scheduled twice or lost.
C4_Fifo ==
  /\ \A i \in SchedIdx : scheduled[i].id = i
  /\ \A q \in 1..Len(audioQueueRef) : audioQueueRef[q].id = Len(scheduled) + q
  /\ accepted = Len(scheduled) + Len(audioQueueRef)

\* C4 witness: three frames of different lengths accepted and all scheduled
C4_Witness ==
  /\ accepted = 3 /\ Len(scheduled) = 3
  /\ scheduled[1].dur # scheduled[2].dur
  /\ scheduled[3].now > scheduled[1].now

\* C5: a frame scheduled while the cursor is not behind the pass's currentTime
\* starts exactly where the previous frame of the context ends; three
\* 128-sample frames arriving together at t0, the cursor not ahead of t0, are
\* scheduled at t0, t0 + 128 and t0 + 256.
C5_Contiguous ==
  /\ \A i \in SchedIdx :
       (i > 1 /\ SameContext(i - 1, i) /\ scheduled[i].npt >= scheduled[i].now) =>
         scheduled[i].start = EndOf(i - 1)
  /\ \A i \in SchedIdx :
       ( /\ i + 2 <= Len(scheduled)
         /\ SameContext(i, i + 1) /\ SameContext(i, i + 2)
         /\ \A j \in {i, i + 1, i + 2} :
              scheduled[j].dur = 128 /\ scheduled[j].now = scheduled[i].now
         /\ scheduled[i].npt <= scheduled[i].now ) =>
         /\ scheduled[i].start = scheduled[i].now
         /\ scheduled[i + 1].start = scheduled[i].now + 128
         /\ scheduled[i + 2].start = scheduled[i].now + 256

\* C5 witness: the three-frame scenario, at a t0 later than the creation of
\* the playback context
C5_Witness ==
  /\ Len(scheduled) = 3
  /\ \A j \in SchedIdx : scheduled[j].dur = 128 /\ scheduled[j].now = scheduled[1].now
  /\ scheduled[1].now > 0
  /\ scheduled[3].start = scheduled[1].now + 256

\* C6 (as claimed; the code violates it): after any drain pass nextPlayTime is
\* at most 0.2 s beyond the currentTime that pass observed. Every pass ends
\* with the cursor at the end of the frame it scheduled last.
C6_LookAheadBound ==
  \A i \in SchedIdx : EndOf(i) <= scheduled[i].now + LookAhead

\* C7 (as claimed; the code violates it for a frame of no sample): at every
\* callback boundary, frames left in audioQueue have a redrain timer pending,
\* and every frame queueAudio accepted has been scheduled (so it is scheduled
\* eventually: in the code, in the callback that accepted it).
C7_AcceptedFramesScheduled ==
  /\ audioQueueRef # <<>> => redrainTimers # <<>>
  /\ \A id \in 1..accepted : \E i \in SchedIdx : scheduled[i].id = id

(* ========================= Session controller claims ================== *)

\* no start attempt and no stopSession invocation is under way
Quiescent ==
  /\ \A a \in Attempts : attempts[a].pc \notin InFlight
  /\ \A s \in StopSlots : stops[s].pc = "idle"

\* the controller is Idle
Idle == ~isListening /\ ~isConnecting /\ Quiescent

\* start attempt a reached Active (ran setIsListening(true))
ReachedActive(a) == attempts[a].result \in {"active", "stopped"}

\* nothing that start attempt a acquired is still held
ReleasedBy(a) ==
  /\ a \notin messageListeners /\ a \notin agentAudioListeners
  /\ workletNodes[a] # "connected"
  /\ streams[a] # "live"
  /\ captureContexts[a] # "running"
  /\ \A c \in 1..Len(playbackContexts) :
       playbackContexts[c].by = a => playbackContexts[c].state = "closed"

\* lemma: playbackContextRef never refers to a closed context, so the close()
\* calls of lines 305 and 396 are never made on a closed context
RefNeverClosed ==
  playbackContextRef # 0 => playbackContexts[playbackContextRef].state # "closed"

\* lemma: no frame stays in audioQueue and no redrain timer is ever armed
\* beyond the callback that queued the frame
QueueEmptyBetweenCallbacks == audioQueueRef = <<>> /\ redrainTimers = <<>>

\* C1 (as claimed; the code violates it): a start attempt during whose
\* Connecting phase stopSession was invoked never reaches Active, that is,
\* never runs setIsListening(true).
C1_StopWinsOverConnecting ==
  \A a \in Attempts : attempts[a].stopped => ~ReachedActive(a)

\* C2 (as claimed; the code violates it): when stopSession was invoked while
\* a start attempt awaited its credential request, the resolution of that
\* request (success or failure) acquires no resource and changes no session
\* state: isListening, the error slot, the capture context, the microphone
\* stream, the playback contexts, the listeners and the conversation stay
\* as they are.
C2_StoppedCredentialIsNoOp ==
  [][\A a \in Attempts :
       ( /\ attempts[a].pc = "cred" /\ attempts[a].stoppedCred
         /\ attempts'[a].pc # "cred" ) =>
         UNCHANGED <<isListening, error, audioContext, mediaStream, captureContexts,
                     streams, playbackContexts, messageListeners,
                     agentAudioListeners, conversation>>]_vars

\* C8 (as claimed; the code violates it): when a stopSession that was invoked
\* on an Active session completes, everything the Active start attempts had
\* acquired is released (listeners unregistered, worklet node disconnected,
\* microphone stopped, capture and playback contexts closed), audioQueue is
\* empty, nextPlayTime is 0 and isListening is false.
C8_StopReleasesSession ==
  (justStopped.kind = "stop" /\ justStopped.session # {}) =>
    /\ \A a \in justStopped.session : ReleasedBy(a)
    /\ playbackContextRef = 0
    /\ audioQueueRef = <<>> /\ nextPlayTimeRef = 0 /\ ~isListening

C10_IdleHoldsNothing ==
  /\ \A a \in Attempts : attempts[a].result = "failed" => ReleasedBy(a)
  /\ Idle =>
       /\ \A a \in Attempts : captureContexts[a] # "running" /\ streams[a] # "live"
       /\ \A c \in 1..Len(playbackContexts) : playbackContexts[c].state = "closed"
       /\ messageListeners = {} /\ agentAudioListeners = {}
       /\ conversation # "open"

\* C11 (as claimed; the code violates it): once a start attempt whose
\* getUserMedia call was rejected is over, the controller is Idle and the
\* last render is committed (nothing is pending any more), the capture
\* context and the playback context that attempt opened are closed.
C11_MicFailureClosesContexts ==
  \A a \in Attempts :
    ( /\ Idle /\ rendered = CurrentRender
      /\ attempts[a].result = "failed" /\ attempts[a].failedAt = "gum" ) =>
      /\ captureContexts[a] # "running"
      /\ \A c \in 1..Len(playbackContexts) :
           playbackContexts[c].by = a => playbackContexts[c].state = "closed"

\* start attempt a holds a transport listener, a live microphone stream or a
\* running capture context
HoldsSessionResource(a) ==
  \/ a \in messageListeners \/ a \in agentAudioListeners
  \/ streams[a] = "live"
  \/ captureContexts[a] = "running"

\* C12 (as claimed; the code violates it): the listeners, microphone streams
\* and capture contexts of two start attempts never coexist: whatever an
\* earlier attempt holds is released before a later one acquires anything.
C12_NoTwoSessionsCoexist ==
  \A a, b \in Attempts :
    (a # b /\ HoldsSessionResource(a)) => ~HoldsSessionResource(b)

\* C13 (as claimed; the code violates it): once Editor has been unmounted, or
\* has been given another module than the one a session was started for, and
\* nothing is pending any more (no start attempt, no stop, no render), that
\* session holds nothing: its listeners are unregistered, its worklet node is
\* disconnected, its microphone stream is stopped and its capture and
\* playback contexts are closed.
C13_LifecycleReleasesSession ==
  (Quiescent /\ (~mounted \/ rendered = CurrentRender)) =>
    \A a \in Attempts :
      (attempts[a].module # 0 /\ (~mounted \/ attempts[a].module # moduleId)) =>
        ReleasedBy(a)

\* lemma: the message listener and the agentAudio listener of a start attempt
\* are registered and unregistered together
ListenersPaired == messageListeners = agentAudioListeners

\* C14 (as claimed; the code violates it): an agentAudio event that enqueues a
\* frame is never delivered to a listener that was registered when a
\* stopSession was invoked: stopSession has unregistered it.
C14_NoEventAfterStop ==
  [][accepted' # accepted =>
       \A a \in agentAudioListeners : ~attempts[a].listenersStopped]_vars

(* ========================= Message handler claims ===================== *)

\* C15 (as claimed; the code violates it): a message event that is an interim
\* transcript (or no transcript) leaves the working context text as it is; a
\* final transcript makes it grow by exactly one space and the transcript's
\* text.
C15_OnlyFinalAppendedOnce ==
  [][messages' # messages =>
       localPlainContent' =
         IF lastMessage'.type = "transcript" /\ lastMessage'.is_final
           THEN localPlainContent \o " " \o lastMessage'.text
           ELSE localPlainContent]_vars

\* whether string t occurs in string s
Contains(s, t) ==
  \E i \in 1..(Len(s) - Len(t) + 1) : SubSeq(s, i, i + Len(t) - 1) = t

\* C17: a transport error event delivered while the session is Active puts a
\* message containing the event's message in the error slot and leaves
\* isListening, the registered listeners, the microphone streams, the capture
\* and playback contexts, the audio queue and nextPlayTime unchanged.
C17_TransportErrorKeepsSession ==
  [][(messages' # messages /\ lastMessage'.type = "error" /\ isListening) =>
       /\ Contains(error', lastMessage'.message)
       /\ error' # "none"
       /\ UNCHANGED <<isListening, messageListeners, agentAudioListeners,
                      messageHandlerRef, audioHandlerRef, conversation, mediaStream,
                      streams, audioContext, captureContexts, playbackContextRef,
                      playbackContexts, audioQueueRef, nextPlayTimeRef>>]_vars

\* an Active session has received a transport error and is still Active
C17_Witness ==
  /\ lastMessage.type = "error" /\ lastMessage.message = "quota"
  /\ error = "Flow client error: quota"
  /\ isListening
  /\ conversation = "open"
  /\ \E a \in Attempts :
       /\ attempts[a].result = "active"
       /\ a \in messageListeners
       /\ streams[a] = "live"
       /\ captureContexts[a] = "running"

(* ============================ Cancellation ============================ *)

\* C16: the step in which a cancelled start attempt finishes (its credential
\* request rejects with an AbortError) leaves the error slot as it was.
C16_AbortNotSurfaced ==
  [][\A a \in Attempts :
       (attempts[a].result # "aborted" /\ attempts'[a].result = "aborted") =>
         error' = error]_vars

\* a start attempt was cancelled during its credential request and has finished
C16_Witness ==
  \E a \in Attempts :
    /\ attempts[a].result = "aborted"
    /\ attempts[a].pc = "done"
    /\ attempts[a].failedAt = "cred"
    /\ controllers[a] = "aborted"

(* ============================ Serialization =========================== *)

\* the stopSession calls in progress that no start attempt is awaiting
StopsInProgress == {s \in StopSlots : stops[s].pc # "idle" /\ stops[s].caller = 0}

\* the start attempts in progress (in their stop phase or a later awaited step)
StartsInProgress == {a \in Attempts : attempts[a].pc \in InFlight}

\* C18 (as claimed; the code violates it): at most one start attempt or stop
\* is in progress at any time.
C18_TransitionsSerialized ==
  Cardinality(StartsInProgress) + Cardinality(StopsInProgress) <= 1

(* ============================ Release failures ======================== *)

\* C19 (as claimed; the code violates it): when close() of the capture context
\* has failed in a stopSession, the playback context is closed all the same,
\* the audio queue is empty, nextPlayTime is 0 and isListening is false.
C19_ReleasesGuardedIndividually ==
  justStopped.kind = "threw" =>
    /\ playbackContextRef = 0
    /\ \A c \in 1..Len(playbackContexts) : playbackContexts[c].state = "closed"
    /\ audioQueueRef = <<>>
    /\ nextPlayTimeRef = 0
    /\ ~isListening

(* ============================ Playback contexts ======================== *)

\* the playback contexts that are not closed
LivePlaybackContexts ==
  {c \in 1..Len(playbackContexts) : playbackContexts[c].state # "closed"}

Posted == {m \in 1..Len(portMessages) : portMessages[m].posted}

\* C21: every sample >= 1.0 is encoded as 32767, every sample <= -1.0 as
\* -32768, and every encoded value lies in the signed 16-bit range.
C21_EncoderSaturates ==
  \A m \in Posted :
    LET in == portMessages[m].input
        out == portMessages[m].audio IN
    /\ Len(out) = Len(in)
    /\ \A i \in 1..Len(in) :
         /\ in[i] >= FullScale * SubSteps => out[i] = Int16Max
         /\ in[i] <= -FullScale * SubSteps => out[i] = Int16Min
         /\ out[i] \in Int16Min..Int16Max

\* a frame was encoded that holds a sample above 1.0 and a sample below -1.0
C21_Witness ==
  \E m \in Posted :
    /\ \E i \in 1..Len(portMessages[m].input) :
         portMessages[m].input[i] > FullScale * SubSteps
    /\ \E i \in 1..Len(portMessages[m].input) :
         portMessages[m].input[i] < -FullScale * SubSteps

\* clamp(s, -1, 1) of an input sample, in the unit of the input samples
ClampUnit(sample) ==
  Max(-FullScale * SubSteps, Min(FullScale * SubSteps, sample))

\* round(x) for x given in quarters: the nearest integer, halves upwards
Round(q) ==
  LET h == q + SubSteps \div 2 IN
  IF h >= 0 THEN h \div SubSteps ELSE -((-h + SubSteps - 1) \div SubSteps)

Abs(x) == IF x >= 0 THEN x ELSE -x

\* C25 (as claimed; the code violates it): every encoded value equals
\* round(clamp(s, -1, 1) * 32768) clamped to the signed 16-bit range, and
\* decoding it (value / 32768) gives clamp(s, -1, 1) within 1/32768.
C25_EncoderRounds ==
  \A m \in Posted :
    \A i \in 1..Len(portMessages[m].input) :
      LET s == portMessages[m].input[i]
          value == portMessages[m].audio[i] IN
      /\ value = Max(Int16Min, Min(Int16Max, Round(ClampUnit(s))))
      /\ Abs(DecodeSample(value) - ClampUnit(s)) <= SubSteps

(* ============================ Persistence ============================= *)

\* C22 (as claimed; the code violates it): once a final transcript has been
\* appended to the working context text, the text is eventually stored (the
\* stored plain_content equals the working text) without any user action.
C22_TranscriptPersisted ==
  (lastMessage.type = "transcript" /\ lastMessage.is_final)
    ~> (plainContent = localPlainContent)

(* ============================ Playback cursor ========================= *)

\* the frames scheduled by the step
NewlyScheduled == (Len(scheduled) + 1)..Len(scheduled')

\* the playback contexts created by the step
NewContexts == (Len(playbackContexts) + 1)..Len(playbackContexts')

\* C23: after a step that schedules a frame nextPlayTime is at least the
\* current time of the playback context; a step that creates a playback
\* context sets nextPlayTime to that context's current time (before anything is
\* scheduled in it); and nextPlayTime decreases only when a context is created
\* or a stop resets it to 0.
C23_CursorNotBehind ==
  [][/\ NewlyScheduled # {} =>
          nextPlayTimeRef' >=
            currentTimeOf(playbackContexts', playbackContextRef', now')
     /\ \A i \in NewlyScheduled :
          /\ scheduled'[i].start + scheduled'[i].dur >= scheduled'[i].now
          /\ scheduled'[i].start + scheduled'[i].dur >= scheduled'[i].npt
     /\ \A c \in NewContexts :
          LET first == {i \in NewlyScheduled : scheduled'[i].ctx = c} IN
          IF first = {}
            THEN nextPlayTimeRef' = currentTimeOf(playbackContexts', c, now')
            ELSE \E i \in first :
                   /\ \A j \in first : i <= j
                   /\ scheduled'[i].npt = currentTimeOf(playbackContexts', c, now')
     /\ nextPlayTimeRef' < nextPlayTimeRef =>
          \/ NewContexts # {}
          \/ justStopped'.kind = "stop" /\ nextPlayTimeRef' = 0]_vars

\* a frame was scheduled in a playback context that queueAudio made, a frame
\* was scheduled with the cursor ahead of the clock, and the clock has advanced
C23_Witness ==
  /\ \E i \in SchedIdx : playbackContexts[scheduled[i].ctx].by = 0
  /\ \E i \in SchedIdx : scheduled[i].npt > scheduled[i].now
  /\ now > 0

(* ============================ Capture order =========================== *)

\* C24: a start attempt holds a microphone stream or a worklet node, and has
\* handed captured frames to sendAudio, only if its own credential request and
\* its own conversation handshake have succeeded; and a step that makes
\* isListening true leaves a live stream connected to a worklet node.
C24_CaptureAfterHandshake ==
  [][/\ \A a \in Attempts :
          (streams'[a] # "none" \/ workletNodes'[a] # "none" \/ attempts'[a].sent) =>
            (attempts'[a].credentials /\ attempts'[a].handshake)
     /\ (isListening' /\ ~isListening) =>
          \E a \in Attempts : streams'[a] = "live" /\ workletNodes'[a] = "connected"]_vars

\* two start attempts have both captured and sent frames, and isListening is
\* true
C24_Witness ==
  /\ isListening
  /\ \A a \in Attempts : attempts[a].sent /\ attempts[a].handshake

(* ========================= Credential failure ========================= *)

C27_NothingScheduledAfterStop ==
  [][Len(scheduled') > Len(scheduled) =>
       /\ StopsInProgress = {}
       /\ \A a \in agentAudioListeners :
            ~attempts[a].stopped /\ attempts[a].result # "stopped"]_vars

(* ========================= Cancellation handle ========================= *)

\* C28 (as claimed; the code violates it): while a start attempt is awaiting
\* its credential request and abortControllerRef holds its controller, a step
\* takes the controller out of the ref only if that attempt leaves the await
\* in the same step or the controller has been aborted (by a stopSession, the
\* clean-up effect or a newer start attempt).
C28_ControllerClearedByOwner ==
  [][\A b \in Attempts :
       (attempts[b].pc = "cred" /\ abortControllerRef = b /\ abortControllerRef' # b) =>
         \/ attempts'[b].pc # "cred"
         \/ controllers'[b] = "aborted"]_vars

(* ============================ Redrain timers ========================== *)

C30_ConnectingWhileInFlight ==
  /\ (\E a \in Attempts : attempts[a].pc \in Connecting) => isConnecting
  /\ StartsInProgress = {} => ~isConnecting

(* ========================= Transcripts and modules ===================== *)

\* C31 (as claimed; the code violates it): a message event changes the working
\* context text only when every registered message listener belongs to a start
\* attempt made for the module that is selected now.
C31_TranscriptStaysWithModule ==
  [][(messages' # messages /\ localPlainContent' # localPlainContent) =>
       \A a \in messageListeners : attempts[a].module = moduleId]_vars

(* ============================== Saving ================================= *)

C33_EditPersisted ==
  /\ \A x \in TextareaValues :
       (saveTimeoutRef.pending /\ saveTimeoutRef.selectedModule.id = 1
          /\ saveTimeoutRef.plain_content = x)
       ~> \/ selectedModule.id # 1
          \/ Exists(db, 1) /\ RowOf(db, 1).plain_content = x
          \/ saveTimeoutRef.pending /\ saveTimeoutRef.plain_content # x
  /\ \A q \in PersonaValues :
       (saveTimeoutRef.pending /\ saveTimeoutRef.selectedModule.id = 1
          /\ saveTimeoutRef.persona = q)
       ~> \/ selectedModule.id # 1
          \/ Exists(db, 1) /\ RowOf(db, 1).persona = q
          \/ saveTimeoutRef.pending /\ saveTimeoutRef.persona # q


\* C34 (as claimed; the code violates it): the completion of an update request
\* for a module other than the selected one leaves the selection as it is.
C34_SelectionSurvivesSave ==
  [][\A i \in DOMAIN requests :
       (/\ requests[i].kind = "update"
        /\ requests[i].phase = "answered"
        /\ Ok(requests[i].status)
        /\ requests' = RemoveAt(requests, i)
        /\ selectedModule.id # requests[i].id)
       => selectedModule'.id = selectedModule.id]_vars


\* C35 (as claimed; the code violates it): when no request is in flight and
\* none has failed, the client's list holds exactly the modules stored on the
\* server.
C35_ListMatchesServer ==
  (requests = <<>> /\ ~appError) =>
    {modules[i].id : i \in DOMAIN modules} = {row.id : row \in db.rows}


\* C36: the server's handling of an update request for a stored module sets
\* exactly the columns present in the body (and updated_at) of that row and
\* leaves every other row as it is; for an id that is not stored it answers
\* 404 and leaves the table as it is.
C36_PutSetsPresentFieldsOnly ==
  [][\A i \in DOMAIN requests :
       (/\ requests[i].kind = "update"
        /\ requests[i].phase = "sent"
        /\ DOMAIN requests' = DOMAIN requests
        /\ requests'[i].phase = "answered")
       => LET r == requests[i] IN
          IF \E row \in db.rows : row.id = r.id
            THEN /\ requests'[i].status = 200
                 /\ \A row \in db.rows :
                      \E new \in db'.rows :
                        /\ new.id = row.id
                        /\ new.display_order = row.display_order
                        /\ \A f \in FieldNames :
                             new[f] = IF row.id = r.id /\ f \in r.body.present
                                        THEN r.body[f] ELSE row[f]
                 /\ Cardinality(db'.rows) = Cardinality(db.rows)
            ELSE /\ requests'[i].status = 404
                 /\ db' = db]_vars

\* a rich-text save (title and HTML content only) has been stored for a
\* module that keeps its context text, and an update for a module that is
\* not stored has been answered with 404
C36_Witness ==
  /\ \E i \in DOMAIN requests :
       /\ requests[i].kind = "update" /\ requests[i].status = 200
       /\ requests[i].body.present = {"title", "content"}
       /\ requests[i].row.content = "<p>h</p>"
       /\ requests[i].row.plain_content = PlainContentOf(requests[i].id)
  /\ \E i \in DOMAIN requests :
       requests[i].kind = "update" /\ requests[i].status = 404


\* C37 (as claimed; the code violates it): when the handler of a reorder
\* request ends, either it answers 200 and, its orderedIds being a permutation
\* of the stored ids, GET returns the modules in that order, or it has failed
\* and every module stored when it began has the display_order it had then.
C37_ReorderAppliedOrRolledBack ==
  [][\A i \in DOMAIN requests :
       (/\ requests[i].kind = "reorder"
        /\ requests[i].phase \in {"sent", "begun"}
        /\ DOMAIN requests' = DOMAIN requests
        /\ requests'[i].phase \in {"answered", "unanswered"})
       => LET r == requests'[i]
              ids == {row.id : row \in db'.rows}
              got == getAll(db')
          IN IF r.status = 200
               THEN (/\ Len(r.orderedIds) = Cardinality(ids)
                     /\ {r.orderedIds[k] : k \in DOMAIN r.orderedIds} = ids)
                    => [k \in DOMAIN got |-> got[k].id] = r.orderedIds
               ELSE \A old \in r.stored : \A row \in db'.rows :
                      row.id = old.id => row.display_order = old.display_order]_vars


(* ============================ Capture blocks ========================== *)

\* C38: the calls of process() and the frames on the port correspond one to
\* one in order: a block with channel data of n samples posts one frame of n
\* 16-bit values that depend on this block alone (equal blocks give equal
\* frames, whatever came before), a block without channel data posts nothing,
\* and process() returns true either way.
C38_OneFramePerBlock ==
  \A m \in 1..Len(portMessages) :
    LET block == portMessages[m] IN
    /\ block.alive
    /\ block.posted = block.defined
    /\ block.posted =>
         /\ Len(block.audio) = Len(block.input)
         /\ \A i \in 1..Len(block.audio) : block.audio[i] \in Int16Min..Int16Max
         /\ \A k \in 1..Len(portMessages) :
              (portMessages[k].posted /\ portMessages[k].input = block.input)
                => portMessages[k].audio = block.audio
    /\ ~block.posted => block.audio = <<>>

\* three blocks have been processed: one of two samples, then one without
\* channel data, then one of no sample, which was posted as an empty frame
C38_Witness ==
  /\ Len(portMessages) = 3
  /\ portMessages[1].posted /\ Len(portMessages[1].audio) = 2
  /\ ~portMessages[2].defined /\ ~portMessages[2].posted
  /\ portMessages[3].defined /\ portMessages[3].posted /\ portMessages[3].audio = <<>>


(* ============================ Drain guard ============================= *)

\* C39 (as claimed; the code violates it): every callback leaves isProcessing
\* false, and a callback that finds isProcessing set schedules nothing and
\* arms no timer.
C39_OneDrainPass ==
  [][/\ isProcessingRef' = FALSE
     /\ isProcessingRef => (scheduled' = scheduled /\ redrainTimers' = redrainTimers)]_vars

====
